---- MODULE Spec2Model ----
(***************************************************************************)
(* Gaze tracker: calibration, prediction, smoothing and persistence.       *)
(*                                                                         *)
(* The model follows src/core/calibration_15point.py (Calibration15Point)  *)
(* as it is driven by src/enhanced_tracker.py (EnhancedEyeTracker), and    *)
(* src/legacy/calibration_system.py (AdvancedCalibrationSystem) as it is   *)
(* driven by src/integrated_eye_tracker.py (CalibratedEyeTracker).         *)
(*                                                                         *)
(* Units.  Eye and nose ratios are floats in [0,1] in the source; here     *)
(* they are integers in tenths (0..10).  The output gain is in tenths      *)
(* (1.0 is 10).  Screen coordinates that the source keeps as floats are    *)
(* kept in twentieths of a pixel (Sub == 20), which is exact for the gain  *)
(* transform and the fallback mapping; int() is truncation toward zero.    *)
(***************************************************************************)
EXTENDS Integers, Sequences, FiniteSets, TLC

(* ------------------------------------------------------------------ *)
(* Bounds of the model (not program constants).                        *)
(* ------------------------------------------------------------------ *)
\* frames collected per calibration target; the source uses 60
\* (calibration_15point.py:38), the model scales it down.
FramesPerPoint == 2
\* program starts (process launches) sharing one disk
MaxSessions == 2
\* run_calibration invocations and incremental calibration points over
\* all sessions
MaxCalibrations == 1
\* commands handled over all sessions
MaxCmds == 2
\* predicting frames handled over all sessions
MaxFrames == 2

(* ------------------------------------------------------------------ *)
(* Program constants.                                                  *)
(* ------------------------------------------------------------------ *)
GainMin == 5
GainMax == 20
GainInit == 10
GainStep == 1
ExpectedFeatures == 10
SmoothWindow == 7
SmoothFactor == 5
MaxDelta == 200
MinSamples == 10
PolyDegree == 3
StartupPoints == 21
QuickPoints == 9
Sub == 20

(* ------------------------------------------------------------------ *)
(* Environment: displays, frames, fit results, old persisted data.     *)
(* ------------------------------------------------------------------ *)
\* pyautogui.size(): resolutions for which int(col * dim) of the grid
\* is the same in binary floating point and in exact arithmetic
Screens == { <<1920, 1080>>, <<1366, 768>> }

\* one frame's (left_eye, right_eye, nose) ratios, in tenths
Look(lx, ly, rx, ry, nx, ny) ==
  [lx |-> lx, ly |-> ly, rx |-> rx, ry |-> ry, nx |-> nx, ny |-> ny]

LookCentre == Look(5, 5, 5, 5, 5, 5)
LookCorner == Look(10, 10, 10, 10, 9, 9)
LookOrigin == Look(0, 0, 1, 0, 2, 2)

\* frames a predictor may be asked about
Looks == { LookCentre, LookCorner, LookOrigin }
\* frames seen while tracking / while calibrating
TrackLooks == { LookCentre, LookCorner }
CalibLooks == { LookCentre }

\* A fitted Ridge over the polynomial expansion is a fixed function of the
\* features.  Its coefficients are a function of the samples the user's
\* eyes produced; the model lets the environment choose among these.
\* raw(look) = a + b * (left + right), pixels.
Coefs == << [a |-> -400, b |-> 150, ex |-> 12, ey |-> 9],
           [a |-> 300, b |-> 40, ex |-> 30, ey |-> 25] >>
CoefIds == 1..Len(Coefs)

\* number of features of a model persisted by an earlier release
OldFeatures == 6
OldDegree == 2

(* ------------------------------------------------------------------ *)
(* Arithmetic.                                                         *)
(* ------------------------------------------------------------------ *)
Abs(n) == IF n < 0 THEN -n ELSE n
Min(a, b) == IF a < b THEN a ELSE b
Max(a, b) == IF a > b THEN a ELSE b
\* Python int(n / d) for d > 0: truncation toward zero
Trunc(n, d) == IF n >= 0 THEN n \div d ELSE -((-n) \div d)

RECURSIVE SeqSum(_)
SeqSum(s) == IF s = <<>> THEN 0 ELSE Head(s) + SeqSum(Tail(s))

\* collections.deque(maxlen = cap).append(v)
DequeAppend(q, v, cap) == IF Len(q) >= cap THEN Append(Tail(q), v) ELSE Append(q, v)

(* ------------------------------------------------------------------ *)
(* Calibration15Point: the object and its methods.                     *)
(* A method is an operator from the object (and its arguments) to the  *)
(* object after the call, with the value returned and whether the call *)
(* left by an exception.                                               *)
(* ------------------------------------------------------------------ *)
NoModel == [kind |-> "none", run |-> 0, k |-> 0]
UnfittedRidge(run) == [kind |-> "unfitted", run |-> run, k |-> 0]
FittedRidge(run, k) == [kind |-> "fitted", run |-> run, k |-> k]
\* PolynomialFeatures(degree): n_features_in_ exists once fitted (0: absent)
NewPoly(degree) == [fitted |-> FALSE, run |-> 0, nfeat |-> 0, degree |-> degree]

Result(obj, ret, raised) == [obj |-> obj, ret |-> ret, raised |-> raised]

NewCalibration15Point(w, h) ==
  [ screen_width |-> w, screen_height |-> h,
    is_calibrated |-> FALSE,
    calibration_grid |-> <<>>,
    current_point_idx |-> 0,
    current_frame_count |-> 0,
    calibration_samples |-> <<>>,
    model_x |-> NoModel, model_y |-> NoModel,
    poly_features |-> NewPoly(PolyDegree),
    training_error_x |-> 0, training_error_y |-> 0,
    x_coords |-> <<>>, y_coords |-> <<>>,
    last_valid |-> <<>>,
    output_gain |-> GainInit ]

\* int(col * dim) for col given in thousandths
GridCoord(col, dim) == (col * dim) \div 1000

GridRow(cols, row, w, h) ==
  [i \in 1..Len(cols) |-> << GridCoord(cols[i], w), GridCoord(row, h) >>]

generate_calibration_grid(num_points, w, h) ==
  IF num_points = 9
  THEN GridRow(<<50, 500, 950>>, 50, w, h)
       \o GridRow(<<50, 500, 950>>, 500, w, h)
       \o GridRow(<<50, 500, 950>>, 950, w, h)
  ELSE GridRow(<<50, 275, 500, 725, 950>>, 50, w, h)
       \o GridRow(<<275, 500, 725>>, 300, w, h)
       \o GridRow(<<50, 275, 500, 725, 950>>, 500, w, h)
       \o GridRow(<<275, 500, 725>>, 700, w, h)
       \o GridRow(<<50, 275, 500, 725, 950>>, 950, w, h)

\* start_calibration without the reset of calibration_samples
start_calibration_keeping_samples(c, num_points) ==
  [c EXCEPT !.is_calibrated = FALSE,
            !.calibration_grid =
                generate_calibration_grid(num_points, c.screen_width, c.screen_height),
            !.current_point_idx = 0,
            !.current_frame_count = 0]

start_calibration(c, num_points) ==
  [c EXCEPT !.is_calibrated = FALSE,
            !.calibration_grid =
                generate_calibration_grid(num_points, c.screen_width, c.screen_height),
            !.current_point_idx = 0,
            !.current_frame_count = 0,
            !.calibration_samples = <<>>]

\* Outcomes of the fit: the three calls that can raise, in order.
FitOutcomes == {"ok", "poly_raises", "fit_x_raises", "fit_y_raises"}

\* _train_model.  run names the Ridge objects this call creates, k the
\* coefficients the fit arrives at.
train_model(c, run, k, outcome) ==
  IF Len(c.calibration_samples) < MinSamples
  THEN Result(c, "none", FALSE)
  ELSE IF outcome = "poly_raises"
  THEN Result(c, "none", TRUE)
  ELSE
    LET c1 == [c EXCEPT !.poly_features =
                  [fitted |-> TRUE, run |-> run, nfeat |-> ExpectedFeatures,
                   degree |-> c.poly_features.degree]]
        c2 == [c1 EXCEPT !.model_x = UnfittedRidge(run),
                         !.model_y = UnfittedRidge(run)]
        c3 == [c2 EXCEPT !.model_x = FittedRidge(run, k)]
        c4 == [c3 EXCEPT !.model_y = FittedRidge(run, k)]
        c5 == [c4 EXCEPT !.training_error_x = Coefs[k].ex,
                         !.training_error_y = Coefs[k].ey,
                         !.is_calibrated = TRUE]
    IN  IF outcome = "fit_x_raises" THEN Result(c2, "none", TRUE)
        ELSE IF outcome = "fit_y_raises" THEN Result(c3, "none", TRUE)
        ELSE Result(c5, "none", FALSE)

NewSample(c, look) ==
  [ left_eye |-> <<look.lx, look.ly>>,
    right_eye |-> <<look.rx, look.ry>>,
    nose |-> <<look.nx, look.ny>>,
    screen_x |-> c.calibration_grid[c.current_point_idx + 1][1],
    screen_y |-> c.calibration_grid[c.current_point_idx + 1][2],
    point_idx |-> c.current_point_idx,
    pairs |-> "tuple" ]

\* collect_calibration_frame with the exceptions of _train_model caught
collect_calibration_frame_catching(c, look, run, k, outcome) ==
  IF c.current_point_idx >= Len(c.calibration_grid)
  THEN Result(c, TRUE, FALSE)
  ELSE
    LET c1 == [c EXCEPT !.calibration_samples = Append(@, NewSample(c, look)),
                        !.current_frame_count = @ + 1]
    IN  IF c1.current_frame_count >= FramesPerPoint
        THEN LET c2 == [c1 EXCEPT !.current_point_idx = @ + 1,
                                  !.current_frame_count = 0]
             IN  IF c2.current_point_idx >= Len(c2.calibration_grid)
                 THEN LET t == train_model(c2, run, k, outcome)
                      IN  Result(t.obj, TRUE, FALSE)
                 ELSE Result(c2, FALSE, FALSE)
        ELSE Result(c1, FALSE, FALSE)

collect_calibration_frame(c, look, run, k, outcome) ==
  IF c.current_point_idx >= Len(c.calibration_grid)
  THEN Result(c, TRUE, FALSE)
  ELSE
    LET c1 == [c EXCEPT !.calibration_samples = Append(@, NewSample(c, look)),
                        !.current_frame_count = @ + 1]
    IN  IF c1.current_frame_count >= FramesPerPoint
        THEN LET c2 == [c1 EXCEPT !.current_point_idx = @ + 1,
                                  !.current_frame_count = 0]
             IN  IF c2.current_point_idx >= Len(c2.calibration_grid)
                 THEN LET t == train_model(c2, run, k, outcome)
                      IN  Result(t.obj, TRUE, t.raised)
                 ELSE Result(c2, FALSE, FALSE)
        ELSE Result(c1, FALSE, FALSE)

adjust_output_gain(c, delta) ==
  [c EXCEPT !.output_gain = Max(GainMin, Min(GainMax, c.output_gain + delta))]

\* a reset that clears the two deques and keeps the last stable value
reset_smoothing_buffers_only(c) ==
  [c EXCEPT !.x_coords = <<>>, !.y_coords = <<>>]

reset_smoothing_filters(c) ==
  [c EXCEPT !.x_coords = <<>>, !.y_coords = <<>>, !.last_valid = <<>>]

\* Ridge.predict on the expanded features: e is left + right on the axis
RawPred(m, e) == Coefs[m.k].a + Coefs[m.k].b * e

\* the fallback mapping: int(avg * screen_dim), avg = (left + right) / 2
FallbackXY(c, look) ==
  << Trunc((look.lx + look.rx) * c.screen_width, 20),
     Trunc((look.ly + look.ry) * c.screen_height, 20) >>

\* centre + (pred - centre) * gain, in twentieths of a pixel
ApplyGain(pred, dim, gain) == 10 * dim + (2 * pred - dim) * gain

\* max(0, min(dim - 1, int(v))) for v in twentieths of a pixel
ClampToScreen(v, dim) == Max(0, Min(dim - 1, Trunc(v, Sub)))

\* _smooth_coordinates; x, y and the value returned in twentieths of a pixel
smooth_coordinates(c, x, y) ==
  LET c1 == IF c.last_valid = <<>>
            THEN [c EXCEPT !.last_valid = <<x, y>>,
                           !.x_coords = <<>>, !.y_coords = <<>>]
            ELSE c
      lvx == c1.last_valid[1]
      lvy == c1.last_valid[2]
      outlier == Abs(x - lvx) > MaxDelta * Sub \/ Abs(y - lvy) > MaxDelta * Sub
      bx == IF outlier THEN Sub * Trunc(lvx + x, 2 * Sub) ELSE x
      by == IF outlier THEN Sub * Trunc(lvy + y, 2 * Sub) ELSE y
      xs == DequeAppend(c1.x_coords, bx, SmoothWindow)
      ys == DequeAppend(c1.y_coords, by, SmoothWindow)
      n == Len(xs)
      sx == Trunc(SmoothFactor * SeqSum(xs) + (10 - SmoothFactor) * n * lvx,
                  10 * Sub * n)
      sy == Trunc(SmoothFactor * SeqSum(ys) + (10 - SmoothFactor) * n * lvy,
                  10 * Sub * n)
      c2 == [c1 EXCEPT !.x_coords = xs, !.y_coords = ys,
                       !.last_valid = << Sub * sx, Sub * sy >>]
  IN  Result(c2, << Sub * sx, Sub * sy >>, FALSE)

\* PolynomialFeatures.transform raises unless fitted on as many features
\* as the predictor builds
PolyTransforms(poly) == poly.fitted /\ poly.nfeat = ExpectedFeatures

\* predict_screen_position smoothing whatever use_smoothing says
predict_screen_position_always_smoothing(c, look, use_smoothing) ==
  IF ~c.is_calibrated
  THEN Result(c, FallbackXY(c, look), FALSE)
  ELSE IF ~PolyTransforms(c.poly_features)
  THEN Result(c, <<>>, TRUE)
  ELSE IF c.model_x.kind # "fitted" \/ c.model_y.kind # "fitted"
  THEN Result(c, FallbackXY(c, look), FALSE)
  ELSE
    LET gx == ApplyGain(RawPred(c.model_x, look.lx + look.rx),
                        c.screen_width, c.output_gain)
        gy == ApplyGain(RawPred(c.model_y, look.ly + look.ry),
                        c.screen_height, c.output_gain)
        sm == smooth_coordinates(c, gx, gy)
    IN  Result(sm.obj,
               << ClampToScreen(sm.ret[1], c.screen_width),
                  ClampToScreen(sm.ret[2], c.screen_height) >>,
               FALSE)

predict_screen_position(c, look, use_smoothing) ==
  IF ~c.is_calibrated
  THEN Result(c, FallbackXY(c, look), FALSE)
  ELSE IF ~PolyTransforms(c.poly_features)
  THEN Result(c, <<>>, TRUE)
  ELSE IF c.model_x.kind # "fitted" \/ c.model_y.kind # "fitted"
  THEN Result(c, FallbackXY(c, look), FALSE)
  ELSE
    LET gx == ApplyGain(RawPred(c.model_x, look.lx + look.rx),
                        c.screen_width, c.output_gain)
        gy == ApplyGain(RawPred(c.model_y, look.ly + look.ry),
                        c.screen_height, c.output_gain)
        sm == IF use_smoothing
              THEN smooth_coordinates(c, gx, gy)
              ELSE Result(c, <<gx, gy>>, FALSE)
    IN  Result(sm.obj,
               << ClampToScreen(sm.ret[1], c.screen_width),
                  ClampToScreen(sm.ret[2], c.screen_height) >>,
               FALSE)

(* ------------------------------------------------------------------ *)
(* Persistence: calibration_15point.json and calibration_15point.pkl.  *)
(* The save field of a file is not data of the program: it names the   *)
(* save_calibration_data call that wrote the file.                     *)
(* ------------------------------------------------------------------ *)
NoFile == [kind |-> "absent"]
CorruptFile == [kind |-> "corrupt"]
WriteOutcomes == {"ok", "open_fails", "dump_fails"}

\* json.dump writes tuples as arrays: json.load returns them as lists
JsonSample(smp) == [smp EXCEPT !.pairs = "list"]

JsonRecord(c, sid) ==
  [ kind |-> "data", save |-> sid,
    screen_width |-> c.screen_width,
    screen_height |-> c.screen_height,
    samples |-> [i \in 1..Len(c.calibration_samples) |->
                    JsonSample(c.calibration_samples[i])],
    grid |-> c.calibration_grid,
    training_error_x |-> c.training_error_x,
    training_error_y |-> c.training_error_y ]

PickleBlob(c, sid) ==
  [ kind |-> "data", save |-> sid,
    model_x |-> c.model_x, model_y |-> c.model_y,
    poly_features |-> c.poly_features ]

\* open(path, 'w') then dump: a failing open leaves the file as it was,
\* a failing dump leaves a truncated file
WriteFile(old, new, outcome) ==
  IF outcome = "ok" THEN new
  ELSE IF outcome = "dump_fails" THEN CorruptFile
  ELSE old

save_calibration_data(c, d, sid, jout, pout) ==
  IF ~c.is_calibrated
  THEN Result(d, "none", FALSE)
  ELSE
    LET d1 == [d EXCEPT !.json = WriteFile(d.json, JsonRecord(c, sid), jout)]
        d2 == [d1 EXCEPT !.pkl = WriteFile(d1.pkl, PickleBlob(c, sid), pout)]
    IN  IF jout # "ok" THEN Result(d1, "none", TRUE)
        ELSE Result(d2, "none", pout # "ok")

\* load_calibration_data restoring model_x and poly_features but not model_y
load_calibration_data_without_model_y(c, d) ==
  IF d.json.kind # "data" \/ d.pkl.kind # "data"
  THEN Result(c, FALSE, FALSE)
  ELSE Result([c EXCEPT !.calibration_samples = d.json.samples,
                        !.calibration_grid = d.json.grid,
                        !.model_x = d.pkl.model_x,
                        !.poly_features = d.pkl.poly_features,
                        !.training_error_x = d.json.training_error_x,
                        !.training_error_y = d.json.training_error_y,
                        !.is_calibrated = TRUE],
              TRUE, FALSE)

load_calibration_data(c, d) ==
  IF d.json.kind # "data"
  THEN Result(c, FALSE, FALSE)
  ELSE
    LET c1 == [c EXCEPT !.calibration_samples = d.json.samples,
                        !.calibration_grid = d.json.grid]
    IN  IF d.pkl.kind # "data"
        THEN Result(c1, FALSE, FALSE)
        ELSE
          LET c2 == [c1 EXCEPT !.model_x = d.pkl.model_x,
                               !.model_y = d.pkl.model_y,
                               !.poly_features = d.pkl.poly_features]
              c3 == [c2 EXCEPT !.training_error_x = d.json.training_error_x,
                               !.training_error_y = d.json.training_error_y]
          IN  IF c3.poly_features.nfeat # 0
                 /\ c3.poly_features.nfeat # ExpectedFeatures
              THEN Result(c3, FALSE, FALSE)
              ELSE Result([c3 EXCEPT !.is_calibrated = TRUE], TRUE, FALSE)

(* ------------------------------------------------------------------ *)
(* EnhancedEyeTracker: one process after another, sharing the disk.    *)
(* ------------------------------------------------------------------ *)
VARIABLES
  cal,                     \* self.calibration, the Calibration15Point
  disk,                    \* the two calibration files
  pc,                      \* where run() / the tracking thread is
  origin,                  \* who called run_calibration: run() or handle_command
  cursor_control_enabled,
  smoothing_enabled,
  cursor,                  \* the last pyautogui.moveTo target of this process
  session,                 \* number of the running process
  ncal, ncmds, nframes,    \* budgets used (see the bounds)
  hist,                    \* the last calibration / load / save event and the
                           \* object as it was when that operation began
  saved,                   \* the object as it was at the last completed save
  running,                 \* control_panel.running
  status_calibrated,       \* control_panel.status_data['calibrated']
  command_queue,           \* control_panel.command_queue
  phase,                   \* where the tracking loop is within an iteration
  sent,                    \* the commands send_command has put, in order
  handled,                 \* the commands handle_command has been given, in order
  agg,                     \* the samples of one target in floating point, and
                           \* the training example made of them
  logger                   \* EyeTrackingLogger's calibration data; disabled
                           \* when the tracker runs with self.logger = None

\* the part of the panel the tracker writes, and the part the threads share
panel_vars == << running, status_calibrated >>
loop_vars == << command_queue, phase, sent, handled >>

vars == << cal, disk, pc, origin, cursor_control_enabled, smoothing_enabled,
           cursor, session, ncal, ncmds, nframes, hist, saved,
           running, status_calibrated, command_queue, phase, sent, handled,
           agg, logger >>

\* EyeTrackingLogger: the calibration part of calibration_data and the
\* frame counter.  enabled is FALSE for self.logger = None.
NoLogger ==
  [ enabled |-> FALSE, calibration_points |-> << >>, raw_samples |-> << >>,
    calibration_frame_count |-> 0 ]

NewLogger == [NoLogger EXCEPT !.enabled = TRUE]

\* no target is being aggregated
NoAggregation == [ sample |-> << >>, samples |-> << >>, example |-> << >> ]

NoSnapshot == [kind |-> "none"]
Snapshot(c) == [kind |-> "object", obj |-> c]

\* what a saved object answers with smoothing off, and the gain and display
\* it answers with
PredictTable(c) ==
  [look \in Looks |->
     << predict_screen_position(c, look, FALSE).ret,
        predict_screen_position(c, look, FALSE).raised >>]

SavedSnapshot(c, sid) ==
  [ kind |-> "object", save |-> sid, output_gain |-> c.output_gain,
    screen_width |-> c.screen_width, screen_height |-> c.screen_height,
    table |-> PredictTable(c) ]
Event(name, before) == [event |-> name, before |-> before]

\* files an earlier release left behind: a model over OldFeatures features
OldSample ==
  [ left_eye |-> <<5, 5>>, right_eye |-> <<5, 5>>, nose |-> <<5, 5>>,
    screen_x |-> 96, screen_y |-> 54, point_idx |-> 0, pairs |-> "list" ]

OldDisk ==
  [ json |-> [ kind |-> "data", save |-> 0,
               screen_width |-> 1920, screen_height |-> 1080,
               samples |-> << OldSample >>,
               grid |-> generate_calibration_grid(9, 1920, 1080),
               training_error_x |-> 40, training_error_y |-> 40 ],
    pkl |-> [ kind |-> "data", save |-> 0,
              model_x |-> FittedRidge(0, 1), model_y |-> FittedRidge(0, 1),
              poly_features |-> [fitted |-> TRUE, run |-> 0,
                                 nfeat |-> OldFeatures, degree |-> OldDegree] ] ]

EmptyDisk == [json |-> NoFile, pkl |-> NoFile]

\* files an earlier run of this release left behind on a PriorScreen display:
\* the object after a completed quick calibration, saved
PriorScreen == << 1920, 1080 >>

PriorCal ==
  LET c0 == start_calibration(NewCalibration15Point(PriorScreen[1], PriorScreen[2]),
                              QuickPoints)
      g == c0.calibration_grid
      c1 == [c0 EXCEPT
               !.calibration_samples =
                  [i \in 1..(Len(g) * FramesPerPoint) |->
                     [ left_eye |-> <<5, 5>>, right_eye |-> <<5, 5>>,
                       nose |-> <<5, 5>>,
                       screen_x |-> g[((i - 1) \div FramesPerPoint) + 1][1],
                       screen_y |-> g[((i - 1) \div FramesPerPoint) + 1][2],
                       point_idx |-> (i - 1) \div FramesPerPoint,
                       pairs |-> "tuple" ]],
               !.current_point_idx = Len(g)]
  IN  train_model(c1, 0, 1, "ok").obj

PriorDisk == [json |-> JsonRecord(PriorCal, 0), pkl |-> PickleBlob(PriorCal, 0)]

\* AdvancedControlPanel.__init__, and the tracking loop not yet started
NewPanel ==
  [ running |-> TRUE, status_calibrated |-> FALSE, command_queue |-> <<>>,
    phase |-> "test", sent |-> <<>>, handled |-> <<>> ]

PanelStart ==
  /\ running' = NewPanel.running
  /\ status_calibrated' = NewPanel.status_calibrated
  /\ command_queue' = NewPanel.command_queue
  /\ phase' = NewPanel.phase
  /\ sent' = NewPanel.sent
  /\ handled' = NewPanel.handled

InitPanel ==
  /\ running = NewPanel.running
  /\ status_calibrated = NewPanel.status_calibrated
  /\ command_queue = NewPanel.command_queue
  /\ phase = NewPanel.phase
  /\ sent = NewPanel.sent
  /\ handled = NewPanel.handled

\* EnhancedEyeTracker.__init__ in a new process
ProcessStart(scr) ==
  /\ PanelStart
  /\ cal' = NewCalibration15Point(scr[1], scr[2])
  /\ pc' = "start"
  /\ origin' = "run"
  /\ cursor_control_enabled' = TRUE
  /\ smoothing_enabled' = TRUE
  /\ cursor' = <<>>
  /\ hist' = Event("none", NoSnapshot)

Init ==
  /\ \E scr \in Screens : cal = NewCalibration15Point(scr[1], scr[2])
  /\ disk \in {EmptyDisk, OldDisk, PriorDisk}
  /\ pc = "start"
  /\ origin = "run"
  /\ cursor_control_enabled = TRUE
  /\ smoothing_enabled = TRUE
  /\ cursor = <<>>
  /\ session = 1
  /\ ncal = 0
  /\ ncmds = 0
  /\ nframes = 0
  /\ hist = Event("none", NoSnapshot)
  /\ saved = NoSnapshot
  /\ InitPanel
  /\ agg = NoAggregation
  /\ logger = NoLogger

\* run(): load_calibration_data at startup
Load ==
  /\ pc = "start"
  /\ LET r == load_calibration_data(cal, disk)
     IN  /\ cal' = r.obj
         /\ pc' = IF r.ret THEN "tracking" ELSE "need_calibration"
         /\ hist' = Event(IF r.ret THEN "load_ok" ELSE "load_failed", Snapshot(cal))
         /\ status_calibrated' = IF r.ret THEN TRUE ELSE status_calibrated
  /\ UNCHANGED << disk, origin, cursor_control_enabled, smoothing_enabled,
                  cursor, session, ncal, ncmds, nframes, saved >>
  /\ UNCHANGED << running, loop_vars >>
  /\ UNCHANGED << agg, logger >>

\* run_calibration up to its loop: start_calibration(num_points)
BeginCalibration(c, num_points, caller) ==
  /\ ncal < MaxCalibrations
  /\ cal' = start_calibration(c, num_points)
  /\ hist' = Event("calibrating", Snapshot(c))
  /\ pc' = "calibrating"
  /\ origin' = caller
  /\ ncal' = ncal + 1
  /\ status_calibrated' = FALSE

\* run(): no saved calibration, run_calibration(num_points=21)
StartupCalibration ==
  /\ pc = "need_calibration"
  /\ BeginCalibration(cal, StartupPoints, "run")
  /\ UNCHANGED << disk, cursor_control_enabled, smoothing_enabled, cursor,
                  session, ncmds, nframes, saved >>
  /\ UNCHANGED << running, loop_vars >>
  /\ UNCHANGED << agg, logger >>

\* where control goes when run_calibration returns
AfterCalibration(c) ==
  IF origin = "run" /\ ~c.is_calibrated THEN "ended" ELSE "tracking"

\* the next collected frame is the last one of the last target
LastFrame(c) ==
  /\ c.current_point_idx + 1 = Len(c.calibration_grid)
  /\ c.current_frame_count + 1 >= FramesPerPoint

\* the body of run_calibration's loop collecting only the frames without a face
calibration_iteration_without_face(c, face, look, run, k, outcome) ==
  IF ~face
  THEN collect_calibration_frame(c, look, run, k, outcome)
  ELSE Result(c, FALSE, FALSE)

\* the body of run_calibration's loop up to the overlay: the frame is
\* collected only when face_mesh found a face in it
calibration_iteration(c, face, look, run, k, outcome) ==
  IF face
  THEN collect_calibration_frame(c, look, run, k, outcome)
  ELSE Result(c, FALSE, FALSE)

\* one iteration of the loop of run_calibration
CalibrationFrame ==
  /\ pc = "calibrating"
  /\ \E camera \in BOOLEAN :
       IF ~camera
       THEN \* cap.read() failed: break, and the status update after the loop
            /\ cal' = cal
            /\ pc' = AfterCalibration(cal)
            /\ hist' = Event("camera_failed", hist.before)
            /\ status_calibrated' = TRUE
       ELSE
     \E face \in BOOLEAN, esc \in BOOLEAN, look \in CalibLooks :
     \E k \in (IF face /\ LastFrame(cal) THEN CoefIds ELSE {1}),
        outcome \in (IF face /\ LastFrame(cal) THEN FitOutcomes ELSE {"ok"}) :
       LET r == calibration_iteration(cal, face, look, ncal, k, outcome)
       IN  /\ cal' = r.obj
           /\ IF r.raised
              THEN /\ pc' = "crashed"
                   /\ hist' = Event("train_failed", hist.before)
                   /\ status_calibrated' = status_calibrated
              ELSE IF r.ret
              THEN /\ pc' = AfterCalibration(r.obj)
                   /\ hist' = Event(IF r.obj.is_calibrated THEN "trained"
                                    ELSE "train_failed", hist.before)
                   /\ status_calibrated' = TRUE
              ELSE IF esc
              THEN /\ pc' = AfterCalibration(r.obj)
                   /\ hist' = Event("cancelled", hist.before)
                   /\ status_calibrated' = status_calibrated
              ELSE /\ pc' = pc
                   /\ hist' = hist
                   /\ status_calibrated' = status_calibrated
  /\ UNCHANGED << disk, origin, cursor_control_enabled, smoothing_enabled,
                  cursor, session, ncal, ncmds, nframes, saved >>
  /\ UNCHANGED << running, loop_vars >>
  /\ UNCHANGED << agg, logger >>

\* one iteration of the loop of run_calibration with a frame of the camera
\* in which face_mesh finds a face, and no ESC
SessionFrame ==
  /\ pc = "calibrating"
  /\ \E look \in CalibLooks :
     \E k \in (IF LastFrame(cal) THEN CoefIds ELSE {1}),
        outcome \in (IF LastFrame(cal) THEN FitOutcomes ELSE {"ok"}) :
       LET r == calibration_iteration(cal, TRUE, look, ncal, k, outcome)
       IN  /\ cal' = r.obj
           /\ IF r.raised
              THEN /\ pc' = "crashed"
                   /\ hist' = Event("train_failed", hist.before)
                   /\ status_calibrated' = status_calibrated
              ELSE IF r.ret
              THEN /\ pc' = AfterCalibration(r.obj)
                   /\ hist' = Event(IF r.obj.is_calibrated THEN "trained"
                                    ELSE "train_failed", hist.before)
                   /\ status_calibrated' = TRUE
              ELSE /\ pc' = pc
                   /\ hist' = hist
                   /\ status_calibrated' = status_calibrated
  /\ UNCHANGED << disk, origin, cursor_control_enabled, smoothing_enabled,
                  cursor, session, ncal, ncmds, nframes, saved >>
  /\ UNCHANGED << running, loop_vars >>
  /\ UNCHANGED << agg, logger >>

\* the body of the tracking loop without the test for a detected face
tracking_iteration_ignoring_face(c, pointer, face, look, cursor_on, smoothing_on) ==
  IF c.is_calibrated /\ cursor_on
  THEN LET r == predict_screen_position(c, look, smoothing_on)
       IN  [ obj |-> r.obj,
             pointer |-> IF r.raised THEN pointer ELSE r.ret,
             predicted |-> TRUE, raised |-> r.raised ]
  ELSE [ obj |-> c, pointer |-> pointer, predicted |-> FALSE, raised |-> FALSE ]

\* the body of process_tracking_loop's loop up to get_command: the object
\* and the pointer after it, whether predict_screen_position was called and
\* whether it raised
tracking_iteration(c, pointer, face, look, cursor_on, smoothing_on) ==
  IF face /\ c.is_calibrated /\ cursor_on
  THEN LET r == predict_screen_position(c, look, smoothing_on)
       IN  [ obj |-> r.obj,
             pointer |-> IF r.raised THEN pointer ELSE r.ret,
             predicted |-> TRUE, raised |-> r.raised ]
  ELSE [ obj |-> c, pointer |-> pointer, predicted |-> FALSE, raised |-> FALSE ]

\* one iteration of process_tracking_loop up to get_command
TrackFrame ==
  /\ pc = "tracking"
  /\ \E face \in BOOLEAN, look \in TrackLooks :
       LET t == tracking_iteration(cal, cursor, face, look,
                                   cursor_control_enabled, smoothing_enabled)
       IN  /\ t.predicted => nframes < MaxFrames
           /\ cal' = t.obj
           /\ cursor' = t.pointer
           /\ pc' = IF t.raised THEN "crashed" ELSE pc
           /\ nframes' = IF t.predicted THEN nframes + 1 ELSE nframes
           /\ status_calibrated' = IF t.raised THEN status_calibrated
                                   ELSE t.obj.is_calibrated
  /\ UNCHANGED << disk, origin, cursor_control_enabled, smoothing_enabled,
                  session, ncal, ncmds, hist, saved >>
  /\ UNCHANGED << running, loop_vars >>
  /\ UNCHANGED << agg, logger >>

\* os.remove of the two files inside one try: the first failure ends it
DeleteOutcomes == {"both", "json_only", "neither"}

DeleteFiles(d, outcome) ==
  IF outcome = "both" THEN EmptyDisk
  ELSE IF outcome = "json_only" THEN [d EXCEPT !.json = NoFile]
  ELSE d

Commands == {"c", "f", "r", "d", "s", "z", "+", "-", "x", "g", "q"}

\* handle_command(cmd), called by the tracking loop for a dequeued command
HandleCommand(cmd) ==
  /\ pc = "tracking"
  /\ ncmds < MaxCmds
  /\ ncmds' = ncmds + 1
  /\ CASE cmd = "c" ->
            /\ BeginCalibration(cal, QuickPoints, "command")
            /\ UNCHANGED << disk, cursor_control_enabled, smoothing_enabled, saved,
                            running >>
       [] cmd = "f" ->
            /\ BeginCalibration(cal, StartupPoints, "command")
            /\ UNCHANGED << disk, cursor_control_enabled, smoothing_enabled, saved,
                            running >>
       [] cmd = "d" ->
            /\ \E outcome \in DeleteOutcomes : disk' = DeleteFiles(disk, outcome)
            /\ BeginCalibration([cal EXCEPT !.is_calibrated = FALSE],
                                StartupPoints, "command")
            /\ UNCHANGED << cursor_control_enabled, smoothing_enabled, saved,
                            running >>
       [] cmd = "s" ->
            /\ cursor_control_enabled' = ~cursor_control_enabled
            /\ UNCHANGED << cal, disk, pc, origin, smoothing_enabled, ncal,
                            hist, saved, panel_vars >>
       [] cmd = "x" ->
            /\ smoothing_enabled' = ~smoothing_enabled
            /\ UNCHANGED << cal, disk, pc, origin, cursor_control_enabled, ncal,
                            hist, saved, panel_vars >>
       [] cmd = "z" ->
            /\ cal' = reset_smoothing_filters(cal)
            /\ UNCHANGED << disk, pc, origin, cursor_control_enabled,
                            smoothing_enabled, ncal, hist, saved, panel_vars >>
       [] cmd = "+" ->
            /\ cal' = adjust_output_gain(cal, GainStep)
            /\ UNCHANGED << disk, pc, origin, cursor_control_enabled,
                            smoothing_enabled, ncal, hist, saved, panel_vars >>
       [] cmd = "-" ->
            /\ cal' = adjust_output_gain(cal, -GainStep)
            /\ UNCHANGED << disk, pc, origin, cursor_control_enabled,
                            smoothing_enabled, ncal, hist, saved, panel_vars >>
       [] cmd = "q" ->
            /\ \E jout \in WriteOutcomes, pout \in WriteOutcomes :
                 LET r == save_calibration_data(cal, disk, session, jout, pout)
                 IN  /\ disk' = r.obj
                     /\ pc' = IF r.raised THEN "crashed" ELSE "ended"
                     /\ hist' = Event(IF r.raised THEN "save_failed" ELSE "saved",
                                      Snapshot(cal))
                     /\ saved' = IF ~r.raised /\ cal.is_calibrated
                                 THEN SavedSnapshot(cal, session) ELSE saved
                     /\ running' = IF r.raised THEN running ELSE FALSE
            /\ UNCHANGED << cal, origin, cursor_control_enabled,
                            smoothing_enabled, ncal, status_calibrated >>
       [] OTHER ->
            \* 'r' only prints; 'g' toggles the raw gaze overlay
            UNCHANGED << cal, disk, pc, origin, cursor_control_enabled,
                         smoothing_enabled, ncal, hist, saved, panel_vars >>
  /\ UNCHANGED << cursor, session, nframes >>

\* a command the panel was given, dequeued by the tracking loop
Command ==
  /\ \E cmd \in Commands : HandleCommand(cmd)
  /\ UNCHANGED loop_vars
  /\ UNCHANGED << agg, logger >>

\* the loop condition fails (the panel stopped running) or the camera read fails
LoopEnds ==
  /\ pc = "tracking"
  /\ pc' = "ended"
  /\ UNCHANGED << cal, disk, origin, cursor_control_enabled, smoothing_enabled,
                  cursor, session, ncal, ncmds, nframes, hist, saved >>
  /\ UNCHANGED << panel_vars, loop_vars >>
  /\ UNCHANGED << agg, logger >>

\* the program is started again, on the same disk
NewSession ==
  /\ pc \in {"ended", "crashed"}
  /\ session < MaxSessions
  /\ session' = session + 1
  /\ \E scr \in Screens : ProcessStart(scr)
  /\ UNCHANGED << disk, ncal, ncmds, nframes, saved >>
  /\ UNCHANGED << agg, logger >>

Next ==
  \/ Load
  \/ StartupCalibration
  \/ CalibrationFrame
  \/ TrackFrame
  \/ Command
  \/ LoopEnds
  \/ NewSession

Spec == Init /\ [][Next]_vars

\* the commands that begin a calibration
SessionCommands == {"c", "f", "d"}

SessionCommand ==
  /\ \E cmd \in SessionCommands : HandleCommand(cmd)
  /\ UNCHANGED loop_vars
  /\ UNCHANGED << agg, logger >>

\* calibration sessions that are not cancelled and whose loop keeps running
\* on frames with a face
NextSession ==
  \/ Load
  \/ StartupCalibration
  \/ SessionCommand
  \/ SessionFrame

SpecSession == Init /\ [][NextSession]_vars /\ WF_vars(SessionFrame)

(* ------------------------------------------------------------------ *)
(* AdvancedCalibrationSystem (src/legacy/calibration_system.py): the   *)
(* object and its methods.  Predictions before clamping are kept in    *)
(* thousandths of a pixel (Milli).                                     *)
(* ------------------------------------------------------------------ *)
LegacyGainMin == 1
LegacyGainMax == 50
LegacyFeatures == 6
LegacyDegree == 2
LegacyMinPoints == 4
LegacyDefaultPoints == 9
FinePoints == 25
NormalisePoints == 9
EmaAlpha == 4
Sensitivity == 12
Milli == 1000

\* self.poly_features = None
NoPoly == [fitted |-> FALSE, run |-> 0, nfeat |-> 0, degree |-> 0]

\* KalmanFilter.  posteri_error_estimate is a function of the number n of
\* updates since the reset: the blending factor of update n is
\* 10 / (10 n + 1), process_variance (1e-5) being below the resolution.
NewKalman == [estimate |-> 0, n |-> 0]

KalmanUpdate(f, m) ==
  [ estimate |-> f.estimate + Trunc(10 * (m - f.estimate), 10 * (f.n + 1) + 1),
    n |-> f.n + 1 ]

\* ExponentialMovingAverage(alpha = 0.4); <<>> is None
EmaUpdate(v, m) ==
  IF v = <<>> THEN << m >>
  ELSE << Trunc(EmaAlpha * m + (10 - EmaAlpha) * v[1], 10) >>

\* _generate_calibration_grid: normalised coordinates, in hundredths
LegacyGridRows(vals) ==
  [i \in 1..(Len(vals) * Len(vals)) |->
     << vals[((i - 1) % Len(vals)) + 1], vals[((i - 1) \div Len(vals)) + 1] >>]

legacy_generate_calibration_grid(num_points) ==
  IF num_points = 9 THEN LegacyGridRows(<<10, 50, 90>>)
  ELSE IF num_points = 13
  THEN LegacyGridRows(<<10, 50, 90>>)
       \o << <<25, 25>>, <<75, 25>>, <<25, 75>>, <<75, 75>> >>
  ELSE IF num_points = 16 THEN LegacyGridRows(<<10, 40, 60, 90>>)
  ELSE LegacyGridRows(<<10, 30, 50, 70, 90>>)

NewAdvancedCalibrationSystem(w, h) ==
  [ screen_width |-> w, screen_height |-> h,
    calibration_grid |-> legacy_generate_calibration_grid(LegacyDefaultPoints),
    current_point_idx |-> 0,
    calibration_data |-> <<>>,
    current_frame_count |-> 0,
    temp_data_buffer |-> <<>>,
    is_calibrated |-> FALSE,
    is_calibrating |-> FALSE,
    x_model |-> NoModel, y_model |-> NoModel,
    rbf_x |-> NoModel, rbf_y |-> NoModel,
    poly_features |-> NoPoly,
    kalman_x |-> NewKalman, kalman_y |-> NewKalman,
    ema_x |-> <<>>, ema_y |-> <<>>,
    output_gain |-> GainInit,
    head_baseline_x |-> <<>>, head_baseline_y |-> <<>>,
    calibration_error_pixels |-> 0,
    last_predicted |-> <<>> ]

legacy_reset_smoothing_filters(c) ==
  [c EXCEPT !.kalman_x = NewKalman, !.kalman_y = NewKalman,
            !.ema_x = <<>>, !.ema_y = <<>>]

legacy_start_calibration(c, num_points) ==
  legacy_reset_smoothing_filters(
    [c EXCEPT !.calibration_grid = legacy_generate_calibration_grid(num_points),
              !.current_point_idx = 0,
              !.calibration_data = <<>>,
              !.temp_data_buffer = <<>>,
              !.current_frame_count = 0,
              !.is_calibrating = TRUE,
              !.is_calibrated = FALSE])

set_output_gain(c, gain) ==
  [c EXCEPT !.output_gain = Max(LegacyGainMin, Min(gain, LegacyGainMax))]

legacy_adjust_output_gain(c, delta) == set_output_gain(c, c.output_gain + delta)

LegacyJsonRecord(c, sid) ==
  [ kind |-> "data", save |-> sid,
    screen_width |-> c.screen_width,
    screen_height |-> c.screen_height,
    calibration_points |-> c.calibration_data,
    head_baseline_x |-> c.head_baseline_x,
    head_baseline_y |-> c.head_baseline_y,
    calibration_error |-> c.calibration_error_pixels ]

LegacyPickleBlob(c, sid) ==
  [ kind |-> "data", save |-> sid,
    x_model |-> c.x_model, y_model |-> c.y_model,
    poly_features |-> c.poly_features,
    rbf_x |-> c.rbf_x, rbf_y |-> c.rbf_y ]

\* save_calibration_data: each write inside its own try; the disk after it
legacy_save_calibration_data(c, d, sid, jout, pout) ==
  [ json |-> WriteFile(d.json, LegacyJsonRecord(c, sid), jout),
    pkl |-> WriteFile(d.pkl, LegacyPickleBlob(c, sid), pout) ]

legacy_load_calibration_data(c, d) ==
  IF d.json.kind = "absent" \/ d.pkl.kind = "absent"
  THEN Result(c, FALSE, FALSE)
  ELSE IF d.json.kind # "data"
  THEN Result(c, FALSE, FALSE)
  ELSE IF d.json.screen_width # c.screen_width
          \/ d.json.screen_height # c.screen_height
  THEN Result(c, FALSE, FALSE)
  ELSE
    LET c1 == [c EXCEPT !.calibration_data = d.json.calibration_points,
                        !.head_baseline_x = d.json.head_baseline_x,
                        !.head_baseline_y = d.json.head_baseline_y,
                        !.calibration_error_pixels = d.json.calibration_error]
    IN  IF d.pkl.kind # "data"
        THEN Result(c1, FALSE, FALSE)
        ELSE Result([c1 EXCEPT !.x_model = d.pkl.x_model,
                               !.y_model = d.pkl.y_model,
                               !.poly_features = d.pkl.poly_features,
                               !.rbf_x = d.pkl.rbf_x,
                               !.rbf_y = d.pkl.rbf_y,
                               !.is_calibrated = TRUE],
                    TRUE, FALSE)

\* np.mean of one field over a list of records, in the field's unit
MeanOf(recs, field) ==
  SeqSum([i \in 1..Len(recs) |-> recs[i][field]]) \div Len(recs)

LegacyFitOutcomes ==
  {"ok", "poly_raises", "fit_x_raises", "fit_y_raises", "rbf_raises"}

\* _train_mapping_model, ending with its save_calibration_data: the
\* object and (as ret) the disk after the call
train_mapping_model(c, d, run, k, outcome, jout, pout) ==
  IF Len(c.calibration_data) < LegacyMinPoints
  THEN Result(c, d, FALSE)
  ELSE
    LET c0 == [c EXCEPT
                 !.head_baseline_x = << MeanOf(c.calibration_data, "head_x") >>,
                 !.head_baseline_y = << MeanOf(c.calibration_data, "head_y") >>]
        c1 == [c0 EXCEPT !.poly_features = NewPoly(LegacyDegree)]
        c2 == [c1 EXCEPT !.poly_features =
                  [fitted |-> TRUE, run |-> run, nfeat |-> LegacyFeatures,
                   degree |-> LegacyDegree]]
        c3 == [c2 EXCEPT !.x_model = UnfittedRidge(run),
                         !.y_model = UnfittedRidge(run)]
        c4 == [c3 EXCEPT !.x_model = FittedRidge(run, k)]
        c5 == [c4 EXCEPT !.y_model = FittedRidge(run, k),
                         !.calibration_error_pixels = Coefs[k].ex]
        c6 == IF outcome = "rbf_raises" THEN c5
              ELSE [c5 EXCEPT !.rbf_x = FittedRidge(run, k),
                              !.rbf_y = FittedRidge(run, k)]
        c7 == [c6 EXCEPT !.is_calibrated = TRUE]
    IN  IF outcome = "poly_raises" THEN Result(c1, d, FALSE)
        ELSE IF outcome = "fit_x_raises" THEN Result(c3, d, FALSE)
        ELSE IF outcome = "fit_y_raises" THEN Result(c4, d, FALSE)
        ELSE Result(c7, legacy_save_calibration_data(c7, d, run, jout, pout), FALSE)

CalibrationPoint(sx, sy, lx, ly, rx, ry, hx, hy) ==
  [ screen_x |-> sx, screen_y |-> sy,
    left_iris_x |-> lx, left_iris_y |-> ly,
    right_iris_x |-> rx, right_iris_y |-> ry,
    head_x |-> hx, head_y |-> hy ]

\* collect_calibration_frame that leaves the frames of a finished target in
\* temp_data_buffer
legacy_collect_keeping_buffer(c, d, look, run, k, outcome, jout, pout) ==
  IF ~c.is_calibrating \/ c.current_point_idx >= Len(c.calibration_grid)
  THEN Result(c, << TRUE, d >>, FALSE)
  ELSE
    LET target == c.calibration_grid[c.current_point_idx + 1]
        buf == Append(c.temp_data_buffer, look)
        c1 == [c EXCEPT !.temp_data_buffer = buf,
                        !.current_frame_count = @ + 1]
        pt == CalibrationPoint((target[1] * c.screen_width) \div 100,
                               (target[2] * c.screen_height) \div 100,
                               MeanOf(buf, "lx"), MeanOf(buf, "ly"),
                               MeanOf(buf, "rx"), MeanOf(buf, "ry"),
                               MeanOf(buf, "nx"), MeanOf(buf, "ny"))
        c2 == [c1 EXCEPT !.calibration_data = Append(@, pt),
                         !.current_point_idx = @ + 1,
                         !.current_frame_count = 0]
    IN  IF c1.current_frame_count >= FramesPerPoint
        THEN IF c2.current_point_idx >= Len(c2.calibration_grid)
             THEN LET t == train_mapping_model([c2 EXCEPT !.is_calibrating = FALSE],
                                               d, run, k, outcome, jout, pout)
                  IN  Result(t.obj, << TRUE, t.ret >>, FALSE)
             ELSE Result(c2, << FALSE, d >>, FALSE)
        ELSE Result(c1, << FALSE, d >>, FALSE)

\* ret: << is_complete, the disk after the call >>
legacy_collect_calibration_frame(c, d, look, run, k, outcome, jout, pout) ==
  IF ~c.is_calibrating \/ c.current_point_idx >= Len(c.calibration_grid)
  THEN Result(c, << TRUE, d >>, FALSE)
  ELSE
    LET target == c.calibration_grid[c.current_point_idx + 1]
        buf == Append(c.temp_data_buffer, look)
        c1 == [c EXCEPT !.temp_data_buffer = buf,
                        !.current_frame_count = @ + 1]
        pt == CalibrationPoint((target[1] * c.screen_width) \div 100,
                               (target[2] * c.screen_height) \div 100,
                               MeanOf(buf, "lx"), MeanOf(buf, "ly"),
                               MeanOf(buf, "rx"), MeanOf(buf, "ry"),
                               MeanOf(buf, "nx"), MeanOf(buf, "ny"))
        c2 == [c1 EXCEPT !.calibration_data = Append(@, pt),
                         !.current_point_idx = @ + 1,
                         !.current_frame_count = 0,
                         !.temp_data_buffer = <<>>]
    IN  IF c1.current_frame_count >= FramesPerPoint
        THEN IF c2.current_point_idx >= Len(c2.calibration_grid)
             THEN LET t == train_mapping_model([c2 EXCEPT !.is_calibrating = FALSE],
                                               d, run, k, outcome, jout, pout)
                  IN  Result(t.obj, << TRUE, t.ret >>, FALSE)
             ELSE Result(c2, << FALSE, d >>, FALSE)
        ELSE Result(c1, << FALSE, d >>, FALSE)

add_incremental_calibration_point(c, d, look, actual, run, k, outcome, jout, pout) ==
  train_mapping_model(
    [c EXCEPT !.calibration_data =
        Append(@, CalibrationPoint(actual[1], actual[2], look.lx, look.ly,
                                   look.rx, look.ry, look.nx, look.ny))],
    d, run, k, outcome, jout, pout)

\* (q * n) \div d for 0 <= n <= d, without the large product
MulDiv(q, n, d) == (q \div d) * n + ((q % d) * n) \div d

\* One axis of the extremes mapping of predict_screen_position.  v, lo and
\* hi are sums of the two eyes' ratios (twentieths); the value is the
\* prediction in thousandths of a pixel.
LegacyAxis(v, lo, hi, dim, gain) ==
  LET range == Abs(hi - lo)
      den == IF range >= 1 THEN range ELSE 2
      num == IF range >= 1 THEN Max(0, Min(den, v - lo)) ELSE 1
      a_den == 10 * den
      a_num == Max(0, Min(a_den, Sensitivity * num - den))
      g_den == IF gain # GainInit THEN 20 * a_den ELSE a_den
      g_num == IF gain # GainInit
               THEN Max(0, Min(g_den, 10 * a_den + (2 * a_num - a_den) * gain))
               ELSE a_num
  IN  MulDiv(Milli * dim, g_num, g_den)

\* np.clip(pred, 0, dim - 1) then int()
LegacyClamp(v, dim) == Max(0, Min(dim - 1, Trunc(v, Milli)))

\* the smoothing of predict_screen_position: the Kalman filter of each
\* axis, then the moving average of each axis, in thousandths of a pixel
legacy_smooth(c, px, py) ==
  LET kx == KalmanUpdate(c.kalman_x, px)
      ky == KalmanUpdate(c.kalman_y, py)
      ex == EmaUpdate(c.ema_x, kx.estimate)
      ey == EmaUpdate(c.ema_y, ky.estimate)
  IN  Result([c EXCEPT !.kalman_x = kx, !.kalman_y = ky,
                       !.ema_x = ex, !.ema_y = ey],
             << ex[1], ey[1] >>, FALSE)

legacy_predict_screen_position(c, look, use_smoothing) ==
  IF ~c.is_calibrated \/ c.x_model.kind = "none"
  THEN Result(c, << c.screen_width \div 2, c.screen_height \div 2 >>, FALSE)
  ELSE
    LET cx == look.lx + look.rx
        cy == look.ly + look.ry
        P(i) == c.calibration_data[i + 1]
        px == IF Len(c.calibration_data) >= NormalisePoints
              THEN LegacyAxis(cx, P(3).left_iris_x + P(3).right_iris_x,
                              P(5).left_iris_x + P(5).right_iris_x,
                              c.screen_width, c.output_gain)
              ELSE (Milli * cx * c.screen_width) \div 20
        py == IF Len(c.calibration_data) >= NormalisePoints
              THEN LegacyAxis(cy, P(1).left_iris_y + P(1).right_iris_y,
                              P(7).left_iris_y + P(7).right_iris_y,
                              c.screen_height, c.output_gain)
              ELSE (Milli * cy * c.screen_height) \div 20
        sm == IF use_smoothing
              THEN legacy_smooth(c, px, py)
              ELSE Result(c, << px, py >>, FALSE)
        out == << LegacyClamp(sm.ret[1], c.screen_width),
                  LegacyClamp(sm.ret[2], c.screen_height) >>
    IN  Result([sm.obj EXCEPT !.last_predicted = out], out, FALSE)

(* ------------------------------------------------------------------ *)
(* CalibratedEyeTracker (src/integrated_eye_tracker.py): the legacy    *)
(* object driven by keys of the control window.  The variables are the *)
(* tracker's of the same names; origin, hist and saved as above.       *)
(* ------------------------------------------------------------------ *)
\* the number of the training or save that happens next: each is preceded
\* by a new calibration or a new key
Stamp == ncal + ncmds

\* the user looks at the target: ratios follow the target's position
LookAt(target) ==
  Look(target[1] \div 10, target[2] \div 10, target[1] \div 10, target[2] \div 10, 5, 5)

\* the object after a completed 9-point calibration on a PriorScreen display
LegacyPriorCal ==
  LET c0 == legacy_start_calibration(
              NewAdvancedCalibrationSystem(PriorScreen[1], PriorScreen[2]),
              LegacyDefaultPoints)
      g == c0.calibration_grid
      c1 == [c0 EXCEPT
               !.calibration_data =
                  [i \in 1..Len(g) |->
                     CalibrationPoint((g[i][1] * PriorScreen[1]) \div 100,
                                      (g[i][2] * PriorScreen[2]) \div 100,
                                      LookAt(g[i]).lx, LookAt(g[i]).ly,
                                      LookAt(g[i]).rx, LookAt(g[i]).ry,
                                      LookAt(g[i]).nx, LookAt(g[i]).ny)],
               !.current_point_idx = Len(g),
               !.is_calibrating = FALSE]
  IN  train_mapping_model(c1, EmptyDisk, 0, 1, "ok", "ok", "ok")

\* files an earlier run left behind: ret of the training is the disk
LegacyPriorDisk == LegacyPriorCal.ret

\* files with a model fitted on another feature set (the irises only)
LegacyOldFeatures == 4

LegacyOldDisk ==
  [ LegacyPriorDisk EXCEPT
      !.pkl.poly_features.nfeat = LegacyOldFeatures ]

InitLegacy ==
  /\ \E scr \in Screens : cal = NewAdvancedCalibrationSystem(scr[1], scr[2])
  /\ disk \in {EmptyDisk, LegacyPriorDisk, LegacyOldDisk}
  /\ pc = "start"
  /\ origin = "run"
  /\ cursor_control_enabled = TRUE
  /\ smoothing_enabled = TRUE
  /\ cursor = <<>>
  /\ session = 1
  /\ ncal = 0
  /\ ncmds = 0
  /\ nframes = 0
  /\ hist = Event("none", NoSnapshot)
  /\ saved = NoSnapshot
  /\ InitPanel
  /\ agg = NoAggregation
  /\ logger = NoLogger

\* run(): load_calibration_data at startup
LegacyLoad ==
  /\ pc = "start"
  /\ LET r == legacy_load_calibration_data(cal, disk)
     IN  /\ cal' = r.obj
         /\ pc' = IF r.ret THEN "tracking" ELSE "need_calibration"
         /\ hist' = Event(IF r.ret THEN "load_ok" ELSE "load_failed", Snapshot(cal))
  /\ UNCHANGED << disk, origin, cursor_control_enabled, smoothing_enabled,
                  cursor, session, ncal, ncmds, nframes, saved >>
  /\ UNCHANGED << panel_vars, loop_vars >>
  /\ UNCHANGED << agg, logger >>

\* run_calibration up to its loop
LegacyBeginCalibration(c, num_points, caller) ==
  /\ ncal < MaxCalibrations
  /\ cal' = legacy_start_calibration(c, num_points)
  /\ hist' = Event("calibrating", Snapshot(c))
  /\ pc' = "calibrating"
  /\ origin' = caller
  /\ ncal' = ncal + 1

LegacyStartupCalibration ==
  /\ pc = "need_calibration"
  /\ LegacyBeginCalibration(cal, LegacyDefaultPoints, "run")
  /\ UNCHANGED << disk, cursor_control_enabled, smoothing_enabled, cursor,
                  session, ncmds, nframes, saved >>
  /\ UNCHANGED << panel_vars, loop_vars >>
  /\ UNCHANGED << agg, logger >>

LegacyLastFrame(c) ==
  /\ c.current_point_idx + 1 = Len(c.calibration_grid)
  /\ c.current_frame_count + 1 >= FramesPerPoint

\* the inputs of a training: fit result, fit outcome, outcomes of the
\* writes.  The legacy predictor never evaluates the fitted predictors, so
\* one fit result stands for all.
TrainingInputs(training) ==
  IF training
  THEN { << 1, o, j, p >> : o \in {"ok", "rbf_raises"},
                            j \in WriteOutcomes, p \in WriteOutcomes }
       \cup { << 1, o, "ok", "ok" >> :
                 o \in {"poly_raises", "fit_x_raises", "fit_y_raises"} }
  ELSE { << 1, "ok", "ok", "ok" >> }

\* one iteration of the loop of run_calibration; esc is the ESC key or a
\* failed camera read, both of which leave the loop
LegacyCalibrationFrame ==
  /\ pc = "calibrating"
  /\ \E face \in BOOLEAN, esc \in BOOLEAN :
     \E inp \in TrainingInputs(face /\ LegacyLastFrame(cal)) :
       LET look == LookAt(cal.calibration_grid[cal.current_point_idx + 1])
           r == IF face
                THEN legacy_collect_calibration_frame(cal, disk, look, Stamp,
                                                      inp[1], inp[2], inp[3], inp[4])
                ELSE Result(cal, << FALSE, disk >>, FALSE)
       IN  /\ cal' = r.obj
           /\ disk' = r.ret[2]
           /\ IF r.ret[1]
              THEN /\ pc' = AfterCalibration(r.obj)
                   /\ hist' = Event(IF r.obj.is_calibrated THEN "trained"
                                    ELSE "train_failed", hist.before)
              ELSE IF esc
              THEN /\ pc' = AfterCalibration(r.obj)
                   /\ hist' = Event("cancelled", hist.before)
              ELSE /\ pc' = pc
                   /\ hist' = hist
  /\ UNCHANGED << origin, cursor_control_enabled, smoothing_enabled,
                  cursor, session, ncal, ncmds, nframes, saved >>
  /\ UNCHANGED << panel_vars, loop_vars >>
  /\ UNCHANGED << agg, logger >>

\* one iteration of the loop of run() up to get_key
LegacyTrackFrame ==
  /\ pc = "tracking"
  /\ \E face \in BOOLEAN, look \in TrackLooks :
       IF face /\ cal.is_calibrated /\ cursor_control_enabled
       THEN /\ nframes < MaxFrames
            /\ LET r == legacy_predict_screen_position(cal, look, smoothing_enabled)
               IN  /\ cal' = r.obj
                   /\ cursor' = r.ret
            /\ nframes' = nframes + 1
       ELSE UNCHANGED << cal, cursor, nframes >>
  /\ UNCHANGED << disk, pc, origin, cursor_control_enabled, smoothing_enabled,
                  session, ncal, ncmds, hist, saved >>
  /\ UNCHANGED << panel_vars, loop_vars >>
  /\ UNCHANGED << agg, logger >>

\* pyautogui.position(): where moveTo left the pointer (the corner the
\* session starts with before any moveTo)
MousePositions == IF cursor = <<>> THEN { <<0, 0>> } ELSE { cursor }

Keys == {"c", "f", "r", "s", "d", "z", "+", "-", "x", "q", "esc"}

\* the branch of run()'s loop for a key of the control window
HandleKey(key) ==
  /\ pc = "tracking"
  /\ CASE key = "c" ->
            /\ LegacyBeginCalibration(cal, LegacyDefaultPoints, "command")
            /\ UNCHANGED << disk, cursor_control_enabled, smoothing_enabled >>
       [] key = "f" ->
            /\ LegacyBeginCalibration(cal, FinePoints, "command")
            /\ UNCHANGED << disk, cursor_control_enabled, smoothing_enabled >>
       [] key = "r" ->
            /\ ncal < MaxCalibrations
            /\ ncal' = ncal + 1
            /\ \E face \in BOOLEAN, look \in TrackLooks, actual \in MousePositions :
               \E inp \in TrainingInputs(face) :
                 LET r == add_incremental_calibration_point(
                            cal, disk, look, actual, Stamp + 1,
                            inp[1], inp[2], inp[3], inp[4])
                 IN  IF face
                     THEN /\ cal' = r.obj
                          /\ disk' = r.ret
                          /\ hist' = Event(IF inp[2] \in {"ok", "rbf_raises"}
                                           THEN "retrained" ELSE "retrain_failed",
                                           Snapshot(cal))
                     ELSE UNCHANGED << cal, disk, hist >>
            /\ UNCHANGED << pc, origin, cursor_control_enabled,
                            smoothing_enabled >>
       [] key = "d" ->
            /\ \E outcome \in DeleteOutcomes : disk' = DeleteFiles(disk, outcome)
            /\ LegacyBeginCalibration([cal EXCEPT !.is_calibrated = FALSE],
                                      LegacyDefaultPoints, "command")
            /\ UNCHANGED << cursor_control_enabled, smoothing_enabled >>
       [] key = "s" ->
            /\ cursor_control_enabled' = ~cursor_control_enabled
            /\ UNCHANGED << cal, disk, pc, origin, smoothing_enabled, ncal, hist >>
       [] key = "x" ->
            /\ smoothing_enabled' = ~smoothing_enabled
            /\ UNCHANGED << cal, disk, pc, origin, cursor_control_enabled, ncal,
                            hist >>
       [] key = "z" ->
            /\ cal' = legacy_reset_smoothing_filters(cal)
            /\ UNCHANGED << disk, pc, origin, cursor_control_enabled,
                            smoothing_enabled, ncal, hist >>
       [] key = "+" ->
            /\ cal' = legacy_adjust_output_gain(cal, GainStep)
            /\ UNCHANGED << disk, pc, origin, cursor_control_enabled,
                            smoothing_enabled, ncal, hist >>
       [] key = "-" ->
            /\ cal' = legacy_adjust_output_gain(cal, -GainStep)
            /\ UNCHANGED << disk, pc, origin, cursor_control_enabled,
                            smoothing_enabled, ncal, hist >>
       [] key = "q" ->
            /\ \E jout \in WriteOutcomes, pout \in WriteOutcomes :
                 disk' = legacy_save_calibration_data(cal, disk, Stamp + 1, jout, pout)
            /\ pc' = "ended"
            /\ hist' = Event("saved", Snapshot(cal))
            /\ UNCHANGED << cal, origin, cursor_control_enabled,
                            smoothing_enabled, ncal >>
       [] OTHER ->
            \* ESC: quit without saving
            /\ pc' = "ended"
            /\ UNCHANGED << cal, disk, origin, cursor_control_enabled,
                            smoothing_enabled, ncal, hist >>
  /\ UNCHANGED << cursor, session, nframes, saved >>
  /\ UNCHANGED << panel_vars, loop_vars >>
  /\ UNCHANGED << agg, logger >>

LegacyKey ==
  /\ ncmds < MaxCmds
  /\ ncmds' = ncmds + 1
  /\ \E key \in Keys : HandleKey(key)

\* the gain keys, as often as the user presses them
GainKeys == {"+", "-"}

LegacyGainKey ==
  /\ \E key \in GainKeys : HandleKey(key)
  /\ UNCHANGED ncmds

\* the camera read fails: run() leaves its loop
LegacyLoopEnds ==
  /\ pc = "tracking"
  /\ pc' = "ended"
  /\ UNCHANGED << cal, disk, origin, cursor_control_enabled, smoothing_enabled,
                  cursor, session, ncal, ncmds, nframes, hist, saved >>
  /\ UNCHANGED << panel_vars, loop_vars >>
  /\ UNCHANGED << agg, logger >>

\* the program is started again, on the same disk
LegacyNewSession ==
  /\ pc = "ended"
  /\ session < MaxSessions
  /\ session' = session + 1
  /\ \E scr \in Screens :
       /\ cal' = NewAdvancedCalibrationSystem(scr[1], scr[2])
       /\ pc' = "start"
       /\ origin' = "run"
       /\ cursor_control_enabled' = TRUE
       /\ smoothing_enabled' = TRUE
       /\ cursor' = <<>>
       /\ hist' = Event("none", NoSnapshot)
  /\ UNCHANGED << disk, ncal, ncmds, nframes, saved >>
  /\ UNCHANGED << panel_vars, loop_vars >>
  /\ UNCHANGED << agg, logger >>

NextLegacy ==
  \/ LegacyLoad
  \/ LegacyStartupCalibration
  \/ LegacyCalibrationFrame
  \/ LegacyTrackFrame
  \/ LegacyKey
  \/ LegacyLoopEnds
  \/ LegacyNewSession

SpecLegacy == InitLegacy /\ [][NextLegacy]_vars

NextGain ==
  \/ LegacyLoad
  \/ LegacyStartupCalibration
  \/ LegacyCalibrationFrame
  \/ LegacyTrackFrame
  \/ LegacyGainKey

SpecGain == InitLegacy /\ [][NextGain]_vars

(* ------------------------------------------------------------------ *)
(* The tracking loop alone: a session that loaded the files of an      *)
(* earlier run and then only tracks, for more frames than the budget   *)
(* of the specifications above allows.                                 *)
(* ------------------------------------------------------------------ *)
\* predicting frames of the tracking-only session
MaxFilterFrames == 8

\* run() after load_calibration_data returned True
InitTracking ==
  /\ cal = load_calibration_data(
             NewCalibration15Point(PriorScreen[1], PriorScreen[2]), PriorDisk).obj
  /\ disk = PriorDisk
  /\ pc = "tracking"
  /\ origin = "run"
  /\ cursor_control_enabled = TRUE
  /\ smoothing_enabled = TRUE
  /\ cursor = <<>>
  /\ session = 1
  /\ ncal = 0
  /\ ncmds = 0
  /\ nframes = 0
  /\ hist = Event("load_ok",
                  Snapshot(NewCalibration15Point(PriorScreen[1], PriorScreen[2])))
  /\ saved = NoSnapshot
  /\ running = NewPanel.running
  /\ status_calibrated = TRUE
  /\ command_queue = NewPanel.command_queue
  /\ phase = NewPanel.phase
  /\ sent = NewPanel.sent
  /\ handled = NewPanel.handled
  /\ agg = NoAggregation
  /\ logger = NoLogger

\* one iteration of process_tracking_loop with a face in the frame
FilterFrame ==
  /\ pc = "tracking"
  /\ nframes < MaxFilterFrames
  /\ \E look \in Looks :
       LET t == tracking_iteration(cal, cursor, TRUE, look,
                                   cursor_control_enabled, smoothing_enabled)
       IN  /\ cal' = t.obj
           /\ cursor' = t.pointer
           /\ pc' = IF t.raised THEN "crashed" ELSE pc
           /\ status_calibrated' = IF t.raised THEN status_calibrated
                                   ELSE t.obj.is_calibrated
  /\ nframes' = nframes + 1
  /\ UNCHANGED << disk, origin, cursor_control_enabled, smoothing_enabled,
                  session, ncal, ncmds, hist, saved >>
  /\ UNCHANGED << running, loop_vars >>
  /\ UNCHANGED << agg, logger >>

\* handle_command('z') between two frames
FilterReset ==
  /\ pc = "tracking"
  /\ cal' = reset_smoothing_filters(cal)
  /\ UNCHANGED << disk, pc, origin, cursor_control_enabled, smoothing_enabled,
                  cursor, session, ncal, ncmds, nframes, hist, saved >>
  /\ UNCHANGED << panel_vars, loop_vars >>
  /\ UNCHANGED << agg, logger >>

NextFilter ==
  \/ FilterFrame
  \/ FilterReset

SpecFilter == InitTracking /\ [][NextFilter]_vars

(* ------------------------------------------------------------------ *)

(* Floating-point aggregation of the samples of a target.             *)
(* ------------------------------------------------------------------ *)

\* Binary floating point with MantissaBits significant bits (float64 has
\* 53), round to nearest, ties to even.  A number is an integer count of
\* units of 2^-(MantissaBits + 2); the ratios of a frame lie in [1/4, 1).
MantissaBits == 8

RECURSIVE Pow2(_)
Pow2(k) == IF k = 0 THEN 1 ELSE 2 * Pow2(k - 1)

RECURSIVE BitLen(_)
BitLen(n) == IF n = 0 THEN 0 ELSE 1 + BitLen(n \div 2)

\* the spacing of the representable numbers at the magnitude of q
Ulp(q) == IF BitLen(q) > MantissaBits THEN Pow2(BitLen(q) - MantissaBits) ELSE 1

\* the representable number nearest to a / b, for a >= 0 and b > 0
RoundQuotient(a, b) ==
  LET u == Ulp(a \div b)
      k == a \div (b * u)
      rem == a - k * b * u
  IN  IF 2 * rem > b * u \/ (2 * rem = b * u /\ k % 2 = 1)
      THEN (k + 1) * u ELSE k * u

\* float division, addition and subtraction
fdiv(a, b) == IF a >= 0 THEN RoundQuotient(a, b) ELSE -RoundQuotient(-a, b)
fadd(a, b) == fdiv(a + b, 1)
fsub(a, b) == fdiv(a - b, 1)

\* acc + a[i] + a[i + step] + ... up to index last, rounded after each term
RECURSIVE Accumulate(_, _, _, _, _)
Accumulate(acc, a, i, step, last) ==
  IF i > last THEN acc
  ELSE Accumulate(fadd(acc, a[i]), a, i + step, step, last)

\* numpy's add.reduce over a float64 array of up to 128 elements: a plain
\* loop below 8 elements, else eight running sums over the blocks of 8,
\* added pairwise, then the remaining elements
np_sum(a) ==
  LET n == Len(a)
      blocks == n - (n % 8)
      r == [j \in 1..8 |-> Accumulate(a[j], a, j + 8, 8, blocks)]
      res == fadd(fadd(fadd(r[1], r[2]), fadd(r[3], r[4])),
                  fadd(fadd(r[5], r[6]), fadd(r[7], r[8])))
  IN  IF n < 8 THEN Accumulate(0, a, 1, 1, n)
      ELSE Accumulate(res, a, blocks + 1, 1, n)

\* np.mean of a list of floats
np_mean(a) == fdiv(np_sum(a), Len(a))

\* the representable ratios in [1/4, 1)
FloatRatios ==
  { n \in Pow2(MantissaBits)..(Pow2(MantissaBits + 2) - 1) : fdiv(n, 1) = n }

\* frames_per_point of the program
AggregatedFrames == 60

\* the ratios of the frames fed to a target: (left, right, nose)
InputRatios ==
  { Pow2(MantissaBits), Pow2(MantissaBits) + 4,
    3 * Pow2(MantissaBits), Pow2(MantissaBits + 2) - 4 }

FrameSamples ==
  { [ left_eye |-> << lx, rx >>, right_eye |-> << rx, lx >>,
      nose |-> << 3 * Pow2(MantissaBits), Pow2(MantissaBits) + 4 >> ] :
    lx \in InputRatios, rx \in InputRatios }

\* [s[field][axis] for s in samples]
Channel(samples, field, axis) ==
  [i \in 1..Len(samples) |-> samples[i][field][axis]]

\* the row of X that _train_model builds with the nose channels before the
\* eye-difference channels
point_features_nose_first(samples) ==
  LET avg_left_x == np_mean(Channel(samples, "left_eye", 1))
      avg_left_y == np_mean(Channel(samples, "left_eye", 2))
      avg_right_x == np_mean(Channel(samples, "right_eye", 1))
      avg_right_y == np_mean(Channel(samples, "right_eye", 2))
      avg_nose_x == np_mean(Channel(samples, "nose", 1))
      avg_nose_y == np_mean(Channel(samples, "nose", 2))
  IN  << avg_left_x, avg_left_y, avg_right_x, avg_right_y,
         fdiv(fadd(avg_left_x, avg_right_x), 2),
         fdiv(fadd(avg_left_y, avg_right_y), 2),
         avg_nose_x, avg_nose_y,
         fsub(avg_right_x, avg_left_x), fsub(avg_right_y, avg_left_y) >>

\* _train_model: the row of X built from the samples of one calibration
\* point
point_features(samples) ==
  LET avg_left_x == np_mean(Channel(samples, "left_eye", 1))
      avg_left_y == np_mean(Channel(samples, "left_eye", 2))
      avg_right_x == np_mean(Channel(samples, "right_eye", 1))
      avg_right_y == np_mean(Channel(samples, "right_eye", 2))
      avg_nose_x == np_mean(Channel(samples, "nose", 1))
      avg_nose_y == np_mean(Channel(samples, "nose", 2))
  IN  << avg_left_x, avg_left_y, avg_right_x, avg_right_y,
         fdiv(fadd(avg_left_x, avg_right_x), 2),
         fdiv(fadd(avg_left_y, avg_right_y), 2),
         fsub(avg_right_x, avg_left_x), fsub(avg_right_y, avg_left_y),
         avg_nose_x, avg_nose_y >>

\* predict_screen_position: the feature vector built from a frame
predict_features(left_eye, right_eye, nose) ==
  << left_eye[1], left_eye[2], right_eye[1], right_eye[2],
     fdiv(fadd(left_eye[1], right_eye[1]), 2),
     fdiv(fadd(left_eye[2], right_eye[2]), 2),
     fsub(right_eye[1], left_eye[1]), fsub(right_eye[2], left_eye[2]),
     nose[1], nose[2] >>

\* the variables of the tracker, which the aggregation leaves alone
tracker_vars ==
  << cal, disk, pc, origin, cursor_control_enabled, smoothing_enabled,
     cursor, session, ncal, ncmds, nframes, hist, saved, panel_vars, loop_vars,
     logger >>

\* a target is shown; the user's ratios stay the same for all its frames
ShowTarget ==
  /\ agg = NoAggregation
  /\ \E s \in FrameSamples :
       agg' = [ sample |-> s, samples |-> << >>, example |-> << >> ]
  /\ UNCHANGED tracker_vars

\* collect_calibration_frame: one more sample of the target
AggregateFrame ==
  /\ agg # NoAggregation
  /\ Len(agg.samples) < AggregatedFrames
  /\ agg' = [agg EXCEPT !.samples = Append(@, agg.sample)]
  /\ UNCHANGED tracker_vars

\* _train_model: the example of the target
AggregateTrain ==
  /\ agg # NoAggregation
  /\ Len(agg.samples) = AggregatedFrames
  /\ agg.example = << >>
  /\ agg' = [agg EXCEPT !.example = point_features(agg.samples)]
  /\ UNCHANGED tracker_vars

NextAggregate ==
  \/ ShowTarget
  \/ AggregateFrame
  \/ AggregateTrain

SpecAggregate == InitTracking /\ [][NextAggregate]_vars

(* ------------------------------------------------------------------ *)

(* Calibration with the session logger (src/core/eye_tracking_logger.py). *)
(* ------------------------------------------------------------------ *)
log_calibration_start(l) ==
  [l EXCEPT !.calibration_points = << >>, !.raw_samples = << >>,
            !.calibration_frame_count = 0]

log_calibration_point(l, point_idx, screen_x, screen_y) ==
  [l EXCEPT !.calibration_points =
      Append(@, [ point_idx |-> point_idx, screen_x |-> screen_x,
                  screen_y |-> screen_y, samples |-> << >> ])]

LoggedSample(l, point_idx, look, screen_x, screen_y) ==
  [ frame |-> l.calibration_frame_count + 1, point_idx |-> point_idx,
    left_eye |-> <<look.lx, look.ly>>, right_eye |-> <<look.rx, look.ry>>,
    nose |-> <<look.nx, look.ny>>, screen_x |-> screen_x, screen_y |-> screen_y ]

log_calibration_sample(l, point_idx, look, screen_x, screen_y) ==
  LET sample == LoggedSample(l, point_idx, look, screen_x, screen_y)
      l1 == [l EXCEPT !.calibration_frame_count = @ + 1,
                      !.raw_samples = Append(@, sample)]
  IN  IF point_idx < Len(l1.calibration_points)
      THEN [l1 EXCEPT !.calibration_points[point_idx + 1].samples = Append(@, sample)]
      ELSE l1

\* the body of run_calibration's loop for a frame with a face, with a
\* logger: log_calibration_point for a new target, collect_calibration_frame,
\* then log_calibration_sample under the index the object has by then
logged_calibration_iteration(c, l, look, run, k, outcome) ==
  LET g == c.calibration_grid
      l1 == IF c.current_frame_count = 0 /\ c.current_point_idx < Len(g)
            THEN log_calibration_point(l, c.current_point_idx,
                                       g[c.current_point_idx + 1][1],
                                       g[c.current_point_idx + 1][2])
            ELSE l
      r == collect_calibration_frame(c, look, run, k, outcome)
      idx == r.obj.current_point_idx
      l2 == IF ~r.raised /\ idx < Len(r.obj.calibration_grid)
            THEN log_calibration_sample(l1, idx, look,
                                        r.obj.calibration_grid[idx + 1][1],
                                        r.obj.calibration_grid[idx + 1][2])
            ELSE l1
  IN  [ result |-> r, logger |-> l2 ]

\* run() with a loaded calibration and a logger
InitLogged ==
  /\ cal = load_calibration_data(
             NewCalibration15Point(PriorScreen[1], PriorScreen[2]), PriorDisk).obj
  /\ disk = PriorDisk
  /\ pc = "tracking"
  /\ origin = "run"
  /\ cursor_control_enabled = TRUE
  /\ smoothing_enabled = TRUE
  /\ cursor = <<>>
  /\ session = 1
  /\ ncal = 0
  /\ ncmds = 0
  /\ nframes = 0
  /\ hist = Event("load_ok",
                  Snapshot(NewCalibration15Point(PriorScreen[1], PriorScreen[2])))
  /\ saved = NoSnapshot
  /\ running = NewPanel.running
  /\ status_calibrated = TRUE
  /\ command_queue = NewPanel.command_queue
  /\ phase = NewPanel.phase
  /\ sent = NewPanel.sent
  /\ handled = NewPanel.handled
  /\ agg = NoAggregation
  /\ logger = NewLogger

\* run_calibration up to its loop, for the commands 'c' and 'f'
LoggedCalibrationStart ==
  /\ pc = "tracking"
  /\ \E num_points \in {QuickPoints, StartupPoints} :
       BeginCalibration(cal, num_points, "command")
  /\ logger' = log_calibration_start(logger)
  /\ UNCHANGED << disk, cursor_control_enabled, smoothing_enabled, cursor,
                  session, ncmds, nframes, saved >>
  /\ UNCHANGED << running, loop_vars >>
  /\ UNCHANGED agg

\* one iteration of the loop of run_calibration, with the logger
LoggedCalibrationFrame ==
  /\ pc = "calibrating"
  /\ \E face \in BOOLEAN, esc \in BOOLEAN, look \in CalibLooks :
     \E k \in (IF face /\ LastFrame(cal) THEN CoefIds ELSE {1}),
        outcome \in (IF face /\ LastFrame(cal) THEN FitOutcomes ELSE {"ok"}) :
       LET it == logged_calibration_iteration(cal, logger, look, ncal, k, outcome)
           r == IF face THEN it.result ELSE Result(cal, FALSE, FALSE)
       IN  /\ cal' = r.obj
           /\ logger' = IF face THEN it.logger ELSE logger
           /\ IF r.raised
              THEN /\ pc' = "crashed"
                   /\ hist' = Event("train_failed", hist.before)
                   /\ status_calibrated' = status_calibrated
              ELSE IF r.ret
              THEN /\ pc' = AfterCalibration(r.obj)
                   /\ hist' = Event(IF r.obj.is_calibrated THEN "trained"
                                    ELSE "train_failed", hist.before)
                   /\ status_calibrated' = TRUE
              ELSE IF esc
              THEN /\ pc' = AfterCalibration(r.obj)
                   /\ hist' = Event("cancelled", hist.before)
                   /\ status_calibrated' = status_calibrated
              ELSE /\ pc' = pc
                   /\ hist' = hist
                   /\ status_calibrated' = status_calibrated
  /\ UNCHANGED << disk, origin, cursor_control_enabled, smoothing_enabled,
                  cursor, session, ncal, ncmds, nframes, saved >>
  /\ UNCHANGED << running, loop_vars >>
  /\ UNCHANGED agg

NextLog ==
  \/ LoggedCalibrationStart
  \/ LoggedCalibrationFrame

SpecLog == InitLogged /\ [][NextLog]_vars

(* ------------------------------------------------------------------ *)

(* The control panel and the tracking loop as two threads.             *)
(* ------------------------------------------------------------------ *)

\* queue.Queue.put at the front of the queue instead of its back
send_command_at_front(queue, cmd) == << cmd >> \o queue

\* AdvancedControlPanel.send_command: queue.Queue.put(cmd, block=False)
send_command(queue, cmd) == Append(queue, cmd)

\* AdvancedControlPanel.get_command: the next command, or None, and the
\* queue after it
get_command(queue) ==
  IF queue = << >>
  THEN [ cmd |-> "None", queue |-> queue ]
  ELSE [ cmd |-> Head(queue), queue |-> Tail(queue) ]

\* the buttons pressed: one calibration, the toggles, the filter reset, a
\* gain step and quit
PanelCommands == {"c", "s", "x", "z", "+", "q"}

\* a button or a key of the panel: its callback is send_command
PressButton ==
  /\ running
  /\ Len(sent) < MaxCmds
  /\ \E cmd \in PanelCommands :
       /\ command_queue' = send_command(command_queue, cmd)
       /\ sent' = Append(sent, cmd)
  /\ UNCHANGED << cal, disk, pc, origin, cursor_control_enabled,
                  smoothing_enabled, cursor, session, ncal, ncmds, nframes,
                  hist, saved, panel_vars, phase, handled >>
  /\ UNCHANGED << agg, logger >>

\* on_closing, the window's close button
CloseWindow ==
  /\ running
  /\ Len(sent) < MaxCmds
  /\ running' = FALSE
  /\ command_queue' = send_command(command_queue, "q")
  /\ sent' = Append(sent, "q")
  /\ UNCHANGED << cal, disk, pc, origin, cursor_control_enabled,
                  smoothing_enabled, cursor, session, ncal, ncmds, nframes,
                  hist, saved, status_calibrated, phase, handled >>
  /\ UNCHANGED << agg, logger >>

\* process_tracking_loop: the test of `while self.control_panel.running`
PanelLoopTest ==
  /\ pc = "tracking"
  /\ phase = "test"
  /\ IF running
     THEN phase' = "frame" /\ pc' = pc
     ELSE phase' = phase /\ pc' = "ended"
  /\ UNCHANGED << cal, disk, origin, cursor_control_enabled,
                  smoothing_enabled, cursor, session, ncal, ncmds, nframes,
                  hist, saved, panel_vars, command_queue, sent, handled >>
  /\ UNCHANGED << agg, logger >>

\* process_tracking_loop: the loop's body up to get_command
PanelFrame ==
  /\ pc = "tracking"
  /\ phase = "frame"
  /\ \E camera \in BOOLEAN :
       IF ~camera
       THEN /\ pc' = "ended"
            /\ UNCHANGED << cal, cursor, nframes, status_calibrated, phase >>
       ELSE
     \E face \in BOOLEAN, look \in Looks :
       LET t == tracking_iteration(cal, cursor, face, look,
                                   cursor_control_enabled, smoothing_enabled)
       IN  /\ t.predicted => nframes < MaxFrames
           /\ cal' = t.obj
           /\ cursor' = t.pointer
           /\ pc' = IF t.raised THEN "crashed" ELSE pc
           /\ nframes' = IF t.predicted THEN nframes + 1 ELSE nframes
           /\ status_calibrated' = IF t.raised THEN status_calibrated
                                   ELSE t.obj.is_calibrated
           /\ phase' = "command"
  /\ UNCHANGED << disk, origin, cursor_control_enabled, smoothing_enabled,
                  session, ncal, ncmds, hist, saved, running,
                  command_queue, sent, handled >>
  /\ UNCHANGED << agg, logger >>

\* process_tracking_loop: get_command and, for a command, handle_command
PanelCommand ==
  /\ pc = "tracking"
  /\ phase = "command"
  /\ phase' = "test"
  /\ LET g == get_command(command_queue)
     IN  IF g.cmd = "None"
         THEN UNCHANGED << cal, disk, pc, origin, cursor_control_enabled,
                           smoothing_enabled, cursor, session, ncal, ncmds,
                           nframes, hist, saved, panel_vars, command_queue,
                           sent, handled >>
         ELSE /\ HandleCommand(g.cmd)
              /\ command_queue' = g.queue
              /\ handled' = Append(handled, g.cmd)
              /\ sent' = sent
  /\ UNCHANGED << agg, logger >>

\* run() returns when the window is gone, and the interpreter exits with
\* the tracking thread, a daemon, wherever it is
InterpreterExits ==
  /\ ~running
  /\ pc \in {"tracking", "calibrating"}
  /\ pc' = "ended"
  /\ UNCHANGED << cal, disk, origin, cursor_control_enabled,
                  smoothing_enabled, cursor, session, ncal, ncmds, nframes,
                  hist, saved, panel_vars, loop_vars >>
  /\ UNCHANGED << agg, logger >>

NextPanel ==
  \/ PressButton
  \/ CloseWindow
  \/ PanelLoopTest
  \/ PanelFrame
  \/ PanelCommand
  \/ CalibrationFrame
  \/ InterpreterExits

SpecPanel == InitTracking /\ [][NextPanel]_vars

(* ------------------------------------------------------------------ *)

(* Properties.                                                         *)
(* ------------------------------------------------------------------ *)
\* the three parts of the mapping the predictor uses, whichever class
ModelParts(c) ==
  IF "model_x" \in DOMAIN c
  THEN << c.model_x, c.model_y, c.poly_features >>
  ELSE << c.x_model, c.y_model, c.poly_features >>

\* C1: a recalibration started while a trained model is active and then
\* cancelled with ESC leaves the session calibrated with the previous
\* model, and the samples of the aborted run are gone.
CancelKeepsPreviousModel ==
  (hist.event = "cancelled" /\ hist.before.obj.is_calibrated)
    => /\ cal.is_calibrated
       /\ ModelParts(cal) = ModelParts(hist.before.obj)
       /\ cal.calibration_samples = hist.before.obj.calibration_samples

\* a recalibration of a calibrated session was cancelled
CancelledRecalibration ==
  /\ hist.event = "cancelled"
  /\ hist.before.obj.is_calibrated
  /\ pc = "tracking"

\* C2: a training that fails at the end of a recalibration leaves the
\* session calibrated with the model that was active before the
\* recalibration started.
TrainFailureKeepsPreviousModel ==
  (hist.event = "train_failed" /\ hist.before.obj.is_calibrated)
    => /\ cal.is_calibrated
       /\ ModelParts(cal) = ModelParts(hist.before.obj)

\* the training of a recalibration of a calibrated session failed
FailedRetraining ==
  /\ hist.event = "train_failed"
  /\ hist.before.obj.is_calibrated

\* C3: whenever is_calibrated is true, the X-predictor, the Y-predictor and
\* the feature expansion are all fitted and come from one training run or
\* one load.
CalibratedModelIsOneRun ==
  cal.is_calibrated
    => LET m == ModelParts(cal)
       IN  /\ m[1].kind = "fitted"
           /\ m[2].kind = "fitted"
           /\ m[3].fitted
           /\ m[1].run = m[2].run
           /\ m[2].run = m[3].run

\* an incremental retraining of a calibrated session failed
FailedIncrementalRetraining ==
  /\ hist.event = "retrain_failed"
  /\ hist.before.obj.is_calibrated

\* C4: output_gain lies in [0.5, 2.0] whatever gain adjustments were made.
GainInConfiguredRange ==
  cal.output_gain \in GainMin..GainMax

\* the gain was adjusted up to the end of the range the class allows
GainAtLegacyLimit ==
  cal.output_gain = LegacyGainMax

\* C5: every coordinate pair predict_screen_position returns lies on the
\* screen, 0 <= x <= screen_width - 1 and 0 <= y <= screen_height - 1, in
\* every mode and for every frame.
OnScreen(c, xy) ==
  /\ 0 <= xy[1] /\ xy[1] <= c.screen_width - 1
  /\ 0 <= xy[2] /\ xy[2] <= c.screen_height - 1

PredictionOnScreen ==
  \A look \in Looks, use_smoothing \in BOOLEAN :
    LET r == predict_screen_position(cal, look, use_smoothing)
    IN  ~r.raised => OnScreen(cal, r.ret)

\* the object is in the mode in which the fallback mapping answers
UncalibratedObject ==
  /\ ~cal.is_calibrated
  /\ pc = "need_calibration"

\* C6: a load of files recorded for another resolution fails and does not
\* mark the session calibrated.
LoadRejectsOtherResolution ==
  hist.event = "load_ok"
    => /\ disk.json.screen_width = cal.screen_width
       /\ disk.json.screen_height = cal.screen_height

\* a load ran on files recorded for another resolution
LoadedOtherResolution ==
  /\ hist.event \in {"load_ok", "load_failed"}
  /\ disk.json.kind = "data"
  /\ disk.json.screen_width # cal.screen_width

\* the number of features the class builds for its feature expansion
FeaturesBuilt(c) ==
  IF "model_x" \in DOMAIN c THEN ExpectedFeatures ELSE LegacyFeatures

\* C7: a load of a model fitted on another number of features than the
\* predictor builds fails and does not mark the session calibrated.
LoadRejectsOtherDimensionality ==
  hist.event = "load_ok"
    => cal.poly_features.nfeat = FeaturesBuilt(cal)

\* a load ran on a model fitted on another number of features
LoadedOtherDimensionality ==
  /\ hist.event \in {"load_ok", "load_failed"}
  /\ disk.pkl.kind = "data"
  /\ disk.pkl.poly_features.nfeat # FeaturesBuilt(cal)

\* C8: a load that fails leaves the object exactly as it was before the call.
FailedLoadLeavesState ==
  hist.event = "load_failed" => cal = hist.before.obj

\* a load failed after it had read the record file
FailedLoadAfterRecord ==
  /\ hist.event = "load_failed"
  /\ disk.json.kind = "data"

\* C9: a load never succeeds on a record written by one save and a model
\* blob written by another.
LoadPairsOneSave ==
  hist.event = "load_ok" => disk.json.save = disk.pkl.save

\* a load ran on a record and a blob of different saves
LoadedMixedPair ==
  /\ hist.event \in {"load_ok", "load_failed"}
  /\ disk.json.kind = "data" /\ disk.pkl.kind = "data"
  /\ disk.json.save # disk.pkl.save

\* the files on disk are the pair the last completed save wrote, and this
\* is a later session on a display of the same resolution
SavedPairOnDisk ==
  /\ saved.kind = "object"
  /\ disk.json.kind = "data" /\ disk.pkl.kind = "data"
  /\ disk.json.save = saved.save /\ disk.pkl.save = saved.save
  /\ session > saved.save
  /\ cal.screen_width = saved.screen_width
  /\ cal.screen_height = saved.screen_height

NoFaceFrameChangesNothing ==
  \A look \in Looks :
    /\ LET t == tracking_iteration(cal, cursor, FALSE, look,
                                   cursor_control_enabled, smoothing_enabled)
       IN  /\ t.obj = cal
           /\ t.pointer = cursor
           /\ ~t.predicted
    /\ \A k \in CoefIds, outcome \in FitOutcomes :
         calibration_iteration(cal, FALSE, look, ncal, k, outcome)
           = Result(cal, FALSE, FALSE)

\* the tracking loop runs on a calibrated object with cursor control on,
\* filter history and a pointer position: a frame with a face would predict
NoFaceFrameWhileTracking ==
  /\ pc = "tracking"
  /\ cal.is_calibrated /\ cursor_control_enabled /\ smoothing_enabled
  /\ cal.last_valid # <<>>
  /\ cursor # <<>>

(* ------------------------------------------------------------------ *)
(* The smoothing filter observed from outside, whichever class: raw    *)
(* coordinates in, filtered pixels out.                                *)
(* ------------------------------------------------------------------ *)
IsCore(c) == "model_x" \in DOMAIN c

\* one raw coordinate pair (pixels) through the filter of the object: the
\* object after it and the pixels the predictor hands on
FilterStep(c, x, y) ==
  IF IsCore(c)
  THEN LET r == smooth_coordinates(c, Sub * x, Sub * y)
       IN  Result(r.obj,
                  << ClampToScreen(r.ret[1], c.screen_width),
                     ClampToScreen(r.ret[2], c.screen_height) >>,
                  FALSE)
  ELSE LET r == legacy_smooth(c, Milli * x, Milli * y)
       IN  Result(r.obj,
                  << LegacyClamp(r.ret[1], c.screen_width),
                     LegacyClamp(r.ret[2], c.screen_height) >>,
                  FALSE)

\* the outputs of the filter for a sequence of raw coordinate pairs
RECURSIVE FilterOutputs(_, _)
FilterOutputs(c, raws) ==
  IF raws = <<>> THEN <<>>
  ELSE LET r == FilterStep(c, Head(raws)[1], Head(raws)[2])
       IN  << r.ret >> \o FilterOutputs(r.obj, Tail(raws))

ResetFilters(c) ==
  IF IsCore(c) THEN reset_smoothing_filters(c) ELSE legacy_reset_smoothing_filters(c)

\* an object of the same class as constructed for the same display
FreshObject(c) ==
  IF IsCore(c)
  THEN NewCalibration15Point(c.screen_width, c.screen_height)
  ELSE NewAdvancedCalibrationSystem(c.screen_width, c.screen_height)

\* raw coordinate pairs fed to a filter, and sequences of them
RawInputs == { <<500, 500>>, <<1900, 700>> }
RawSequences == [1..2 -> RawInputs]

\* the filter of the object holds something of earlier inputs
FilterUsed(c) ==
  IF IsCore(c)
  THEN c.last_valid # <<>> \/ c.x_coords # <<>> \/ c.y_coords # <<>>
  ELSE c.kalman_x.n > 0 \/ c.kalman_y.n > 0 \/ c.ema_x # <<>> \/ c.ema_y # <<>>

ConstantRaws(x, y, n) == [i \in 1..n |-> << x, y >>]

\* the last stable value of the filter, if it has one, is a point of the screen
FilterInsideScreen(c) ==
  IF IsCore(c)
  THEN c.last_valid = <<>>
       \/ /\ c.last_valid[1] \in 0..(Sub * (c.screen_width - 1))
          /\ c.last_valid[2] \in 0..(Sub * (c.screen_height - 1))
  ELSE /\ c.kalman_x.estimate \in 0..(Milli * (c.screen_width - 1))
       /\ c.kalman_y.estimate \in 0..(Milli * (c.screen_height - 1))
       /\ c.ema_x = <<>> \/ c.ema_x[1] \in 0..(Milli * (c.screen_width - 1))
       /\ c.ema_y = <<>> \/ c.ema_y[1] \in 0..(Milli * (c.screen_height - 1))

\* C13: from any filter state of a tracking session, the constant raw
\* coordinate (500, 500) fed for 30 or more consecutive frames gives
\* outputs that from the 30th frame on are within 1 pixel of (500, 500)
\* on both axes.
ConstantInputSettles ==
  (pc = "tracking" /\ cal.is_calibrated /\ FilterInsideScreen(cal)) =>
    LET outs == FilterOutputs(cal, ConstantRaws(500, 500, 33))
    IN  \A i \in 30..33 :
          /\ Abs(outs[i][1] - 500) <= 1
          /\ Abs(outs[i][2] - 500) <= 1

\* a tracking session whose filter has been given frames
TrackingFilterUsed ==
  /\ pc = "tracking"
  /\ cal.is_calibrated
  /\ FilterUsed(cal)
  /\ FilterInsideScreen(cal)

\* jumps of a raw sample from the last stable value, in pixels, beyond the
\* outlier threshold
OutlierJumps == { -(MaxDelta + 1), MaxDelta + 1, -(3 * MaxDelta), 3 * MaxDelta }

\* C14: for every filter state with a last stable value s and every raw
\* sample r more than the outlier threshold away from s on an axis, the
\* output o of that frame is nearer to s than r is on that axis, whatever
\* the history buffer holds.
OutlierMovesLessThanJump ==
  cal.last_valid # <<>> =>
    \A d \in OutlierJumps :
      LET s == cal.last_valid[1]
          r == s + Sub * d
          o == smooth_coordinates(cal, r, cal.last_valid[2]).ret[1]
      IN  Abs(o - s) < Abs(r - s)

\* the filter has a last stable value and a full history buffer
FullHistoryBuffer ==
  /\ pc = "tracking"
  /\ cal.last_valid # <<>>
  /\ Len(cal.x_coords) = SmoothWindow

\* the toggles, the gain, the filter state and the model of the tracker
Toggles == << cursor_control_enabled, smoothing_enabled >>
FilterState(c) == << c.x_coords, c.y_coords, c.last_valid >>
ModelState(c) == << c.is_calibrated, c.model_x, c.model_y >>

\* the step is a UI-thread action: a command was put
UiStep == sent' # sent

\* the step is the tracking loop taking the oldest command of the queue
DequeueStep ==
  /\ command_queue # << >>
  /\ command_queue' = Tail(command_queue)
  /\ handled' = Append(handled, Head(command_queue))

\* C15: once the tracking thread runs, a UI-thread action (button, key,
\* window close) leaves the filter state, the gain, the toggles and the
\* model as they are and only appends its command to the queue; the gain and
\* the toggles change only in a step of the tracking loop that dequeues a
\* command, the model only in such a step or in the calibration that the
\* loop runs for a dequeued command; and the commands are taken in the order
\* they were put.
UiActionsOnlyEnqueue ==
  /\ [](sent = handled \o command_queue)
  /\ [][ /\ UiStep =>
              /\ cal' = cal
              /\ Toggles' = Toggles
              /\ command_queue' = Append(command_queue, sent'[Len(sent')])
              /\ handled' = handled
         /\ (Toggles' # Toggles \/ cal'.output_gain # cal.output_gain) =>
              DequeueStep
         /\ ModelState(cal') # ModelState(cal) =>
              \/ DequeueStep
              \/ /\ pc = "calibrating"
                 /\ handled # << >>
                 /\ handled[Len(handled)] = "c"
         /\ FilterState(cal') # FilterState(cal) => ~UiStep
       ]_vars

\* two commands put by the panel were handled, and changed the gain and a
\* toggle
TwoCommandsHandledInOrder ==
  /\ handled = << "+", "x" >>
  /\ cal.output_gain # GainInit
  /\ ~smoothing_enabled

\* C16: when the tracking loop has terminated with a trained model active
\* and a quit command had been enqueued (Quit button or window close), a
\* quit command was dequeued and save_calibration_data has run.
QuitIsProcessedBeforeLoopEnds ==
  (/\ pc = "ended"
   /\ cal.is_calibrated
   /\ \E i \in 1..Len(sent) : sent[i] = "q")
  => /\ \E i \in 1..Len(handled) : handled[i] = "q"
     /\ hist.event = "saved"

\* the window was closed while a trained model is active
WindowClosedWhileCalibrated ==
  /\ ~running
  /\ cal.is_calibrated
  /\ sent # << >>
  /\ sent[Len(sent)] = "q"
  /\ handled = << >>

\* the point counts the specification supports, and requests outside them
SupportedCounts == { QuickPoints, 15, StartupPoints }
UnsupportedCounts == (1..FinePoints) \ SupportedCounts

\* start_calibration of the object's class
StartCalibration(c, num_points) ==
  IF IsCore(c) THEN start_calibration(c, num_points)
  ELSE legacy_start_calibration(c, num_points)

FewPointsWhileTracking ==
  /\ pc = "tracking"
  /\ ~IsCore(cal)
  /\ Len(cal.calibration_data) + 1 < LegacyMinPoints

\* C18: a training call that has fewer than 4 calibration examples (key 'r'
\* adding a point to an object that then holds fewer than four) raises to
\* its caller, installs no model and leaves the object not calibrated.
InsufficientTrainingIsExplicit ==
  FewPointsWhileTracking =>
    \A look \in TrackLooks, actual \in MousePositions :
      LET r == add_incremental_calibration_point(cal, disk, look, actual,
                                                 Stamp + 1, 1, "ok", "ok", "ok")
      IN  /\ r.raised
          /\ ~r.obj.is_calibrated
          /\ r.obj.x_model = cal.x_model
          /\ r.obj.y_model = cal.y_model

\* key 'c' was cancelled before the first point was complete: the tracking
\* loop runs on an object without calibration points
TrackingWithoutPoints ==
  /\ FewPointsWhileTracking
  /\ hist.event = "cancelled"
  /\ cal.calibration_data = << >>

CalibrationCompletes ==
  /\ hist.event = "calibrating"
  /\ hist'.event = "trained"
  /\ cal'.is_calibrated

\* C20: when a recalibration completes and its model becomes active, the
\* smoothing filter holds no last stable value and no buffered coordinate,
\* so that the first smoothed prediction under the new model is computed
\* from empty history.
RecalibrationLeavesFilterEmpty ==
  [][ CalibrationCompletes => ~FilterUsed(cal') ]_vars

\* a recalibration has completed on an object that was calibrated and held
\* filter history when the recalibration began
RecalibratedAfterTracking ==
  /\ hist.event = "trained"
  /\ hist.before.obj.is_calibrated
  /\ FilterUsed(hist.before.obj)

\* measurements given to a Kalman filter, in thousandths of a pixel
KalmanMeasurements == { Milli * p[1] : p \in RawInputs } \cup { Milli * p[2] : p \in RawInputs }

\* the Kalman filters of an object that have seen no measurement: those of
\* the object if none was given since construction or reset, and those of
\* the object after reset_smoothing_filters
UnobservedKalmans(c) ==
  { legacy_reset_smoothing_filters(c).kalman_x,
    legacy_reset_smoothing_filters(c).kalman_y }
  \cup (IF c.kalman_x.n = 0 THEN { c.kalman_x } ELSE {})
  \cup (IF c.kalman_y.n = 0 THEN { c.kalman_y } ELSE {})

\* C21: the output of a Kalman filter for the first measurement after its
\* construction or its reset is that measurement.
FirstKalmanOutputIsMeasurement ==
  (pc = "tracking" /\ ~IsCore(cal)) =>
    \A f \in UnobservedKalmans(cal), m \in KalmanMeasurements :
      KalmanUpdate(f, m).estimate = m

\* the tracking loop runs on a calibrated object whose Kalman filters have
\* seen no measurement
TrackingWithUnobservedKalman ==
  /\ pc = "tracking"
  /\ ~IsCore(cal)
  /\ cal.is_calibrated
  /\ cal.kalman_x.n = 0

\* the step, of a calibration run or of the tracking loop, appends one
\* example to the calibration_data of a legacy object
ExampleAdded ==
  /\ pc \in {"calibrating", "tracking"}
  /\ ~IsCore(cal)
  /\ ~IsCore(cal')
  /\ Len(cal'.calibration_data) = Len(cal.calibration_data) + 1

\* the screen coordinate of the target of index idx (from 0)
LegacyTargetCoord(c, idx) ==
  << (c.calibration_grid[idx + 1][1] * c.screen_width) \div 100,
     (c.calibration_grid[idx + 1][2] * c.screen_height) \div 100 >>

\* the example the step appends is the aggregate of frames_per_point frames,
\* the frame of the step included, all buffered since its target became the
\* current one, and carries that target's coordinate
ExampleOfCurrentTarget ==
  /\ cal.is_calibrating
  /\ Len(cal.temp_data_buffer) = FramesPerPoint - 1
  /\ cal.current_frame_count = FramesPerPoint - 1
  /\ cal.current_point_idx < Len(cal.calibration_grid)
  /\ cal'.current_point_idx = cal.current_point_idx + 1
  /\ cal'.temp_data_buffer = << >>
  /\ LET e == cal'.calibration_data[Len(cal'.calibration_data)]
     IN  << e.screen_x, e.screen_y >> = LegacyTargetCoord(cal, cal.current_point_idx)

\* the example the step appends is the frame of key 'r', paired with the
\* pointer's position
ExampleOfIncrementalPoint ==
  /\ pc = "tracking"
  /\ cal'.temp_data_buffer = cal.temp_data_buffer
  /\ cal'.current_point_idx = cal.current_point_idx
  /\ LET e == cal'.calibration_data[Len(cal'.calibration_data)]
     IN  << e.screen_x, e.screen_y >> \in MousePositions

\* the buffer holds the frames collected for the current target and no other
BufferOfCurrentTarget ==
  ~IsCore(cal) => Len(cal.temp_data_buffer) = cal.current_frame_count

\* C22 as stated: every example that enters the training data is built from
\* exactly frames_per_point samples collected while its target was the
\* current one, and is paired with that target's coordinate.
EveryExampleFromFullTarget ==
  /\ []BufferOfCurrentTarget
  /\ [][ ExampleAdded => ExampleOfCurrentTarget ]_vars

\* C22 amended: every example that a calibration session adds is built from
\* exactly frames_per_point samples of its own target and paired with that
\* target's coordinate; the only other examples are those of
\* add_incremental_calibration_point, one frame paired with the pointer's
\* position.
SessionExamplesFromFullTarget ==
  /\ []BufferOfCurrentTarget
  /\ [][ ExampleAdded =>
           IF pc = "calibrating" THEN ExampleOfCurrentTarget
           ELSE ExampleOfIncrementalPoint ]_vars

\* a calibration run has completed with one example for each target
OneExamplePerTarget ==
  /\ ~IsCore(cal)
  /\ hist.event = "trained"
  /\ Len(cal.calibration_data) = Len(cal.calibration_grid)
  /\ cal.current_point_idx = Len(cal.calibration_grid)

\* the feature vector the predictor builds from the frames fed to the target
PredictorFeatures ==
  predict_features(agg.sample.left_eye, agg.sample.right_eye, agg.sample.nose)

\* C23 as stated: the example made of frames_per_point identical samples
\* has the inputs themselves in its left, right and nose channels, (left +
\* right)/2 and right - left in its derived channels, in the order of the
\* ten features, and is the vector the predictor builds from the same
\* inputs.
IdenticalSamplesGiveExactExample ==
  agg.example # << >> =>
    /\ agg.example = PredictorFeatures
    /\ agg.example[1] = agg.sample.left_eye[1]
    /\ agg.example[2] = agg.sample.left_eye[2]
    /\ agg.example[3] = agg.sample.right_eye[1]
    /\ agg.example[4] = agg.sample.right_eye[2]
    /\ agg.example[9] = agg.sample.nose[1]
    /\ agg.example[10] = agg.sample.nose[2]

\* the roundings of np.mean over frames_per_point values: the additions of
\* the running sums after their first elements, the additions of the
\* remaining elements, the division
MeanRoundings == (AggregatedFrames \div 8 - 1) + (AggregatedFrames % 8) + 1

\* a and b differ by no more than the roundings of the mean, and of the one
\* operation after it, can make values of magnitude m differ
WithinRounding(a, b, m) ==
  Pow2(MantissaBits) * Abs(a - b) <= (MeanRoundings + 2) * m

\* C23 amended: the example made of frames_per_point identical samples
\* agrees with the predictor's vector for the same inputs, channel by
\* channel in the order of the ten features, up to the rounding of the
\* floating-point mean; the derived channels are (left + right)/2 and
\* right - left of the averaged channels.
IdenticalSamplesGiveExampleUpToRounding ==
  agg.example # << >> =>
    LET e == agg.example
        f == PredictorFeatures
        mx == f[1] + f[3]
        my == f[2] + f[4]
    IN  /\ Len(e) = ExpectedFeatures
        /\ \A i \in {1, 2, 3, 4, 9, 10} : WithinRounding(e[i], f[i], f[i])
        /\ WithinRounding(e[5], f[5], mx) /\ WithinRounding(e[6], f[6], my)
        /\ WithinRounding(e[7], f[7], mx) /\ WithinRounding(e[8], f[8], my)
        /\ e[5] = fdiv(fadd(e[1], e[3]), 2) /\ e[6] = fdiv(fadd(e[2], e[4]), 2)
        /\ e[7] = fsub(e[3], e[1]) /\ e[8] = fsub(e[4], e[2])

\* an example was made of frames_per_point identical samples whose left
\* and right ratios differ
ExampleOfIdenticalSamples ==
  /\ agg.example # << >>
  /\ Len(agg.samples) = AggregatedFrames
  /\ \A i \in 1..Len(agg.samples) : agg.samples[i] = agg.sample
  /\ agg.sample.left_eye[1] # agg.sample.right_eye[1]

\* the two files hold the samples and the model of the object c
ActivePersisted(c, d) ==
  /\ d.json.kind = "data" /\ d.pkl.kind = "data"
  /\ d.json.samples = JsonRecord(c, 0).samples
  /\ d.json.grid = c.calibration_grid
  /\ d.pkl.model_x = c.model_x
  /\ d.pkl.model_y = c.model_y
  /\ d.pkl.poly_features = c.poly_features

\* C24: when a session whose last calibration event is a successful
\* training, or a save after it, has ended, the files on disk hold the
\* model and the samples that were active.
TrainedCalibrationIsPersisted ==
  (pc = "ended" /\ cal.is_calibrated /\ hist.event \in {"trained", "saved"})
    => ActivePersisted(cal, disk)

\* a session trained, was told to quit and saved what it had trained
TrainedSessionSavedOnQuit ==
  /\ pc = "ended" /\ cal.is_calibrated /\ hist.event = "saved"
  /\ ncal > 0 /\ cal.model_x.kind = "fitted" /\ cal.model_x.run = ncal
  /\ ActivePersisted(cal, disk)

\* the examples the legacy predictor reads as centre, middle left, middle
\* right, top centre and bottom centre
ExtremeExample(c, i) == c.calibration_data[i + 1]

\* the examples read at 3, 4, 5 lie on one row from left to right, those at
\* 1, 4, 7 on one column from top to bottom, and none of the first
\* NormalisePoints examples lies outside the rectangle they span
ExtremesAreWhereRead(c) ==
  LET P(i) == ExtremeExample(c, i)
  IN  /\ P(3).screen_y = P(4).screen_y /\ P(4).screen_y = P(5).screen_y
      /\ P(1).screen_x = P(4).screen_x /\ P(4).screen_x = P(7).screen_x
      /\ P(3).screen_x < P(4).screen_x /\ P(4).screen_x < P(5).screen_x
      /\ P(1).screen_y < P(4).screen_y /\ P(4).screen_y < P(7).screen_y
      /\ \A i \in 0..(NormalisePoints - 1) :
           /\ P(3).screen_x <= P(i).screen_x /\ P(i).screen_x <= P(5).screen_x
           /\ P(1).screen_y <= P(i).screen_y /\ P(i).screen_y <= P(7).screen_y

\* C25: whenever the legacy predictor normalises against its calibration
\* data, the examples at indices 4, 3, 5, 1 and 7 are those of the centre,
\* middle-left, middle-right, top-centre and bottom-centre targets,
\* whichever grid the calibration used and however many incremental points
\* were added.
NormalisationReadsGridExtremes ==
  ( /\ ~IsCore(cal)
    /\ pc = "tracking"
    /\ cal.is_calibrated
    /\ cal.x_model.kind # "none"
    /\ Len(cal.calibration_data) >= NormalisePoints )
    => ExtremesAreWhereRead(cal)

\* tracking with a 9-point calibration and an incremental point, whose
\* examples are where the predictor reads them
NinePointsAndIncrement ==
  /\ ~IsCore(cal) /\ pc = "tracking" /\ cal.is_calibrated
  /\ cal.x_model.kind # "none"
  /\ Len(cal.calibration_data) > NormalisePoints
  /\ ExtremesAreWhereRead(cal)

\* the frames stored for the session: the samples of the core class; the
\* examples of the finished targets and the buffer of the current one in
\* the legacy class
StoredFrames(c) ==
  IF IsCore(c) THEN Len(c.calibration_samples)
  ELSE Len(c.calibration_data) * FramesPerPoint + Len(c.temp_data_buffer)

SessionCounters(c) ==
  /\ 0 <= c.current_point_idx
  /\ c.current_point_idx <= Len(c.calibration_grid)
  /\ 0 <= c.current_frame_count
  /\ c.current_frame_count < FramesPerPoint
  /\ StoredFrames(c) = c.current_point_idx * FramesPerPoint + c.current_frame_count

\* C26: in every state of a calibration session begun by start_calibration
\* the index of the current target is between 0 and the number of targets,
\* the frame count between 0 and frames_per_point - 1, the number of stored
\* samples is current_point_idx * frames_per_point + current_frame_count,
\* and no step of the session decreases current_point_idx.
CalibrationSessionCounters ==
  /\ [](pc = "calibrating" => SessionCounters(cal))
  /\ [][pc = "calibrating" =>
          /\ cal'.current_point_idx >= cal.current_point_idx
          /\ cal'.current_point_idx <= cal.current_point_idx + 1]_vars

\* a session in its second target, with a frame of it stored
SecondTargetUnderWay ==
  /\ pc = "calibrating"
  /\ cal.current_point_idx = 1
  /\ cal.current_frame_count = 1
  /\ StoredFrames(cal) = FramesPerPoint + 1

\* the number of frames a session accepts: len(grid) * frames_per_point
SessionFrames(c) == Len(c.calibration_grid) * FramesPerPoint

\* a call of collect_calibration_frame after the session completed returns
\* True and changes nothing
LaterCallsChangeNothing ==
  (cal.calibration_grid # << >> /\ cal.current_point_idx >= Len(cal.calibration_grid)) =>
    \A look \in TrackLooks, k \in CoefIds, outcome \in FitOutcomes :
      collect_calibration_frame(cal, look, ncal + 1, k, outcome)
        = Result(cal, TRUE, FALSE)

TrainingInvoked ==
  /\ hist.event = "calibrating"
  /\ hist'.event \in {"trained", "train_failed"}

SamplesLoggedAsCollected ==
  /\ Len(logger.raw_samples) = Len(cal.calibration_samples)
  /\ \A i \in 1..Len(logger.raw_samples) :
       /\ logger.raw_samples[i].frame = i
       /\ logger.raw_samples[i].point_idx = cal.calibration_samples[i].point_idx
       /\ logger.raw_samples[i].screen_x = cal.calibration_samples[i].screen_x
       /\ logger.raw_samples[i].screen_y = cal.calibration_samples[i].screen_y

\* every logged calibration point holds frames_per_point samples
LoggedPointsAreFull ==
  /\ Len(logger.calibration_points) = Len(cal.calibration_grid)
  /\ \A p \in 1..Len(logger.calibration_points) :
       Len(logger.calibration_points[p].samples) = FramesPerPoint

\* C28: with a logger, in every state of a calibration session the logged
\* raw samples are the collected samples, each logged once under the index
\* and the screen coordinate of the target it was collected for; when the
\* session has completed, every logged calibration point holds
\* frames_per_point samples.
EverySampleLoggedUnderItsTarget ==
  (logger.enabled /\ hist.event \in {"calibrating", "trained"}) =>
    /\ SamplesLoggedAsCollected
    /\ hist.event = "trained" => LoggedPointsAreFull

\* a session with a logger has completed: every target was announced to
\* the logger and samples were logged
LoggedSessionCompleted ==
  /\ logger.enabled
  /\ hist.event = "trained"
  /\ Len(logger.calibration_points) = Len(cal.calibration_grid)
  /\ Len(logger.raw_samples) > 0

\* the step is one iteration of the tracking loop on a frame of the camera
FrameStep == pc = "tracking" /\ phase = "frame" /\ phase' = "command"

\* the number of times cmd occurs in the sequence of handled commands
RECURSIVE Handled(_, _)
Handled(cmd, n) ==
  IF n = 0 THEN 0
  ELSE Handled(cmd, n - 1) + (IF handled[n] = cmd THEN 1 ELSE 0)

\* C29: an iteration of the tracking loop with smoothing off leaves the
\* buffers and the last stable value of the filter as they were; with
\* cursor control off or without a calibration it makes no prediction,
\* leaves the pointer where it was and the object unchanged; each switch
\* is on exactly when it was toggled an even number of times, so that two
\* toggles restore it.
SwitchesGateFilterAndCursor ==
  /\ [][(FrameStep /\ ~smoothing_enabled) => FilterState(cal') = FilterState(cal)]_vars
  /\ [][(FrameStep /\ (~cursor_control_enabled \/ ~cal.is_calibrated))
          => (cal' = cal /\ cursor' = cursor /\ nframes' = nframes)]_vars
  /\ [](cursor_control_enabled <=> Handled("s", Len(handled)) % 2 = 0)
  /\ [](smoothing_enabled <=> Handled("x", Len(handled)) % 2 = 0)

\* smoothing was toggled off and a frame was predicted and moved the
\* pointer, the filter still empty
PredictedWithSmoothingOff ==
  /\ handled = << "x" >>
  /\ ~smoothing_enabled
  /\ nframes > 0
  /\ cursor # << >>
  /\ FilterState(cal) = << << >>, << >>, << >> >>

\* the point counts the calibration buttons of the control panel advertise:
\* "9-Point Calibration (C)" and "15-Point Calibration (F)"
ButtonPoints == [b \in {"c", "f"} |-> IF b = "c" THEN 9 ELSE 15]

\* the targets are pairwise distinct, inside the screen, and listed row by
\* row from the top left to the bottom right
WellFormedGrid(c) ==
  LET g == c.calibration_grid
  IN  /\ \A i, j \in 1..Len(g) : i # j => g[i] # g[j]
      /\ \A i \in 1..Len(g) :
           /\ 0 <= g[i][1] /\ g[i][1] <= c.screen_width - 1
           /\ 0 <= g[i][2] /\ g[i][2] <= c.screen_height - 1
      /\ \A i \in 1..(Len(g) - 1) :
           \/ g[i][2] < g[i + 1][2]
           \/ (g[i][2] = g[i + 1][2] /\ g[i][1] < g[i + 1][1])

\* the point count handle_command passes to run_calibration for a button
CommandPoints(b) == IF b = "c" THEN QuickPoints ELSE StartupPoints

\* C30: the grid of a calibration has as many targets as were requested at
\* startup (21) and as the button that starts it advertises (9 or 15); its
\* targets are pairwise distinct, inside the screen and listed row by row.
GridHasAdvertisedCount ==
  /\ pc = "calibrating" =>
       /\ WellFormedGrid(cal)
       /\ origin = "run" => Len(cal.calibration_grid) = StartupPoints
  /\ pc = "tracking" =>
       \A b \in DOMAIN ButtonPoints :
         Len(start_calibration(cal, CommandPoints(b)).calibration_grid)
           = ButtonPoints[b]

\* a calibration begun with the 9-point button, with its nine targets
NinePointGridShown ==
  /\ pc = "calibrating"
  /\ origin = "command"
  /\ Len(cal.calibration_grid) = ButtonPoints["c"]
  /\ WellFormedGrid(cal)

====
